---- MODULE Spec2Model ----
(***************************************************************************)
(* A model of the permission-scoped retrieval core of Radex:               *)
(*   - PermissionService   (app/services/permission_service.py)            *)
(*   - EmbeddingService    (app/services/embedding_service.py)             *)
(*   - RAGService          (app/services/rag_service.py,                   *)
(*                          app/services/rag_service_enhanced.py)          *)
(*   - MCPDataProcessor    (app/mcp/data_processor.py)                     *)
(*   - provider sync       (app/api/sync.py)                               *)
(*   - document upload     (app/api/documents.py,                          *)
(*                          app/services/document_service.py)              *)
(*   - Confluence OAuth    (app/api/confluence.py)                         *)
(* Each component has its own specification (SpecACL, SpecIndex, ...);     *)
(* the variables of the other components keep their initial values.        *)
(***************************************************************************)
EXTENDS Integers, Sequences, FiniteSets, TLC

VARIABLES folders, superusers, permissions, aclRet,
          documents, embeddings, ingestPc, indexed, indexRet,
          refIn, refRet,
          objects, dbMetadata, mcpDocuments, df_cache, file_metadata, now, cacheRet,
          tabularFolders, ragIn, ragRet,
          routeIn, routeRet,
          providerRefs, syncDocuments, syncRet,
          dbDocuments, dbEmbeddings, uploadRet,
          oauth_states, issuedStates, providerConnections, oauthRet

aclVars == <<folders, superusers, permissions, aclRet>>

indexVars == <<documents, embeddings, ingestPc, indexed, indexRet>>

refVars == <<refIn, refRet>>

cacheVars == <<objects, dbMetadata, mcpDocuments, df_cache, file_metadata, now, cacheRet>>

ragVars == <<tabularFolders, ragIn, ragRet>>

routeVars == <<routeIn, routeRet>>

syncVars == <<providerRefs, syncDocuments, syncRet>>

uploadVars == <<dbDocuments, dbEmbeddings, uploadRet>>

oauthVars == <<oauth_states, issuedStates, providerConnections, oauthRet>>

vars == <<aclVars, indexVars, refVars, cacheVars, ragVars, routeVars, syncVars, uploadVars, oauthVars>>

(***************************************************************************)
(* Bounds                                                                  *)
(***************************************************************************)
\* The largest number of chunks one ingestion stores for a document.
MaxChunks == 2

\* The largest number of turns of a conversation.
MaxTurns == 6

\* The largest number of uploads of one dataset.
MaxUploads == 2

\* The latest time the clock reaches, in seconds.
MaxTime == 300

\* The largest number of documents that imports create.
MaxSyncDocuments == 3

(***************************************************************************)
(* Access control: users, folders, permission entries                      *)
(***************************************************************************)
Users == {"alice", "bob"}

\* The users that permission entries are granted to or revoked from.
Grantees == {"alice"}

FolderIds == {"A", "B", "C"}

NoParent == "none"

PermissionTypes == {"read", "write", "delete", "admin"}

\* The folder trees the store may hold: a chain A <- B <- C, and a tree in
\* which C does not exist (A <- B only).
FolderTrees ==
    { [A |-> NoParent, B |-> "A", C |-> "B"],
      [A |-> NoParent, B |-> "A"] }

\* The owners the folders may have.
FolderOwners ==
    { [A |-> "bob",   B |-> "bob",   C |-> "bob"],
      [A |-> "alice", B |-> "bob",   C |-> "bob"],
      [A |-> "bob",   B |-> "alice", C |-> "bob"] }

\* The capability combinations a grant request may carry.
FlagChoices ==
    { [can_read |-> FALSE, can_write |-> FALSE, can_delete |-> FALSE, is_admin |-> FALSE],
      [can_read |-> TRUE,  can_write |-> FALSE, can_delete |-> FALSE, is_admin |-> FALSE],
      [can_read |-> FALSE, can_write |-> TRUE,  can_delete |-> FALSE, is_admin |-> FALSE],
      [can_read |-> FALSE, can_write |-> FALSE, can_delete |-> FALSE, is_admin |-> TRUE] }

FolderExists(f) == f \in DOMAIN folders

\* db.query(Permission).filter(user_id == u, folder_id == f)
EntriesFor(u, f) == { p \in permissions : p.user = u /\ p.folder = f }

HasEntry(u, f) == EntriesFor(u, f) # {}

\* .first() of the query above
FirstEntry(u, f) == CHOOSE p \in EntriesFor(u, f) : TRUE

\* The flag of an entry that the requested permission type tests
\* (permission_service.py lines 45-56).  "admin" has no flag of its own.
EntryGrants(p, ptype) ==
    \/ p.is_admin
    \/ ptype = "read" /\ p.can_read
    \/ ptype = "write" /\ p.can_write
    \/ ptype = "delete" /\ p.can_delete

Returned(b) == [exc |-> "none", value |-> b]

Raised(e) == [exc |-> e, value |-> FALSE]

\* Variant in which an explicit entry ends the search with its own flag.
RECURSIVE check_folder_permission_shadowing(_, _, _)
check_folder_permission_shadowing(u, f, ptype) ==
    IF u \in superusers THEN Returned(TRUE)
    ELSE IF ~FolderExists(f) THEN Raised("NotFound")
    ELSE IF folders[f].owner = u THEN Returned(TRUE)
    ELSE IF HasEntry(u, f) THEN Returned(EntryGrants(FirstEntry(u, f), ptype))
    ELSE IF folders[f].parent # NoParent
         THEN check_folder_permission_shadowing(u, folders[f].parent, ptype)
    ELSE Returned(FALSE)

\* Variant that never climbs to the parent.
check_folder_permission_noinherit(u, f, ptype) ==
    IF u \in superusers THEN Returned(TRUE)
    ELSE IF ~FolderExists(f) THEN Raised("NotFound")
    ELSE IF folders[f].owner = u THEN Returned(TRUE)
    ELSE IF HasEntry(u, f) /\ EntryGrants(FirstEntry(u, f), ptype) THEN Returned(TRUE)
    ELSE Returned(FALSE)

\* Variant in which the owner shortcut is missing.
RECURSIVE check_folder_permission_noowner(_, _, _)
check_folder_permission_noowner(u, f, ptype) ==
    IF u \in superusers THEN Returned(TRUE)
    ELSE IF ~FolderExists(f) THEN Raised("NotFound")
    ELSE IF HasEntry(u, f) /\ EntryGrants(FirstEntry(u, f), ptype) THEN Returned(TRUE)
    ELSE IF folders[f].parent # NoParent
         THEN check_folder_permission_noowner(u, folders[f].parent, ptype)
    ELSE Returned(FALSE)

\* Variant that answers False for a folder that does not exist.
RECURSIVE check_folder_permission_nofolder(_, _, _)
check_folder_permission_nofolder(u, f, ptype) ==
    IF u \in superusers THEN Returned(TRUE)
    ELSE IF ~FolderExists(f) THEN Returned(FALSE)
    ELSE IF folders[f].owner = u THEN Returned(TRUE)
    ELSE IF HasEntry(u, f) /\ EntryGrants(FirstEntry(u, f), ptype) THEN Returned(TRUE)
    ELSE IF folders[f].parent # NoParent
         THEN check_folder_permission_nofolder(u, folders[f].parent, ptype)
    ELSE Returned(FALSE)

\* PermissionService.check_folder_permission
RECURSIVE check_folder_permission(_, _, _)
check_folder_permission(u, f, ptype) ==
    IF u \in superusers THEN Returned(TRUE)
    ELSE IF ~FolderExists(f) THEN Raised("NotFound")
    ELSE IF folders[f].owner = u THEN Returned(TRUE)
    ELSE IF HasEntry(u, f) /\ EntryGrants(FirstEntry(u, f), ptype) THEN Returned(TRUE)
    ELSE IF folders[f].parent # NoParent
         THEN check_folder_permission(u, folders[f].parent, ptype)
    ELSE Returned(FALSE)

\* A result set of the store as a list of rows (.all()).
RECURSIVE RowsOf(_)
RowsOf(S) ==
    IF S = {} THEN <<>>
    ELSE LET x == CHOOSE y \in S : TRUE
         IN  <<x>> \o RowsOf(S \ {x})

SeqRange(s) == { s[i] : i \in 1..Len(s) }

\* {f.id: f for f in all_folders} followed by list(values()): every id is
\* kept once, at the position of its first occurrence.
RECURSIVE DictValues(_)
DictValues(s) ==
    IF s = <<>> THEN <<>>
    ELSE LET front == DictValues(SubSeq(s, 1, Len(s) - 1))
             last  == s[Len(s)]
         IN  IF last \in SeqRange(front) THEN front ELSE Append(front, last)

\* Variant that concatenates the two lists without deduplication.
get_user_accessible_folders_nodedup(u) ==
    IF u \in superusers THEN RowsOf(DOMAIN folders)
    ELSE LET owned_folders == RowsOf({ f \in DOMAIN folders : folders[f].owner = u })
             permitted_folder_ids ==
                 { p.folder : p \in { q \in permissions :
                     /\ q.user = u
                     /\ (q.can_read \/ q.can_write \/ q.can_delete \/ q.is_admin) } }
             permitted_folders ==
                 RowsOf({ f \in DOMAIN folders : f \in permitted_folder_ids })
         IN  owned_folders \o permitted_folders

\* PermissionService.get_user_accessible_folders (the ids of the folders)
get_user_accessible_folders(u) ==
    IF u \in superusers THEN RowsOf(DOMAIN folders)
    ELSE LET owned_folders == RowsOf({ f \in DOMAIN folders : folders[f].owner = u })
             permitted_folder_ids ==
                 { p.folder : p \in { q \in permissions :
                     /\ q.user = u
                     /\ (q.can_read \/ q.can_write \/ q.can_delete \/ q.is_admin) } }
             permitted_folders ==
                 RowsOf({ f \in DOMAIN folders : f \in permitted_folder_ids })
         IN  DictValues(owned_folders \o permitted_folders)

NoList == <<>>

AclResult(op, u, f, ptype, r, l) ==
    [op |-> op, user |-> u, folder |-> f, ptype |-> ptype,
     exc |-> r.exc, value |-> r.value, list |-> l,
     granter |-> "none", existing |-> FALSE]

\* The result of a call of grant_permission: the granter and whether an
\* entry of the pair existed (existing_permission, line 127) are kept too.
GrantResult(granter, u, f, r, existing) ==
    [AclResult("grant", u, f, "none", r, NoList)
        EXCEPT !.granter = granter, !.existing = existing]

\* A call of check_folder_permission; the store is only read.
CheckFolderPermission(u, f, ptype) ==
    /\ aclRet' = AclResult("check", u, f, ptype, check_folder_permission(u, f, ptype), NoList)
    /\ UNCHANGED <<folders, superusers, permissions, indexVars, refVars, cacheVars, ragVars, routeVars, syncVars, uploadVars, oauthVars>>

\* A call of get_user_accessible_folders; the store is only read.
GetUserAccessibleFolders(u) ==
    /\ aclRet' = AclResult("accessible", u, "none", "none", Returned(TRUE),
                           get_user_accessible_folders(u))
    /\ UNCHANGED <<folders, superusers, permissions, indexVars, refVars, cacheVars, ragVars, routeVars, syncVars, uploadVars, oauthVars>>

\* Variant of the guard that lets every granter through.
GrantGuard_open(granter, f) == "none"

\* The authorization part of grant_permission (lines 116-124): the outcome
\* of the guard, "none" when the granter may grant.
GrantGuard(granter, f) ==
    IF granter \in superusers THEN "none"
    ELSE LET c == check_folder_permission(granter, f, "admin")
         IN  IF c.exc # "none" THEN c.exc
             ELSE IF c.value THEN "none"
             ELSE IF ~FolderExists(f) \/ folders[f].owner # granter
                  THEN "PermissionDenied"
             ELSE "none"

\* Variant of grant_permission that adds a row without looking for an
\* existing one.
GrantPermission_appending(granter, u, f, flags) ==
    LET g == GrantGuard(granter, f)
        entry == [user |-> u, folder |-> f,
                  can_read |-> flags.can_read, can_write |-> flags.can_write,
                  can_delete |-> flags.can_delete, is_admin |-> flags.is_admin,
                  granted_by |-> granter]
    IN  /\ IF g # "none"
           THEN /\ aclRet' = GrantResult(granter, u, f, Raised(g), FALSE)
                /\ UNCHANGED permissions
           ELSE IF ~FolderExists(f)
           THEN \* commit() of a row whose folder_id references no folder
                /\ aclRet' = GrantResult(granter, u, f, Raised("IntegrityError"), HasEntry(u, f))
                /\ UNCHANGED permissions
           ELSE IF FALSE
           THEN \* the existing row is updated in place
                /\ permissions' = (permissions \ {FirstEntry(u, f)}) \cup {entry}
                /\ aclRet' = GrantResult(granter, u, f, Returned(TRUE), TRUE)
           ELSE \* a new row is added; it carries no email, a column the
                \* mapping declares NOT NULL (models/permission.py line 19),
                \* so the deployed schema decides whether commit() accepts it
                \/ /\ permissions' = permissions \cup {entry}
                   /\ aclRet' = GrantResult(granter, u, f, Returned(TRUE), HasEntry(u, f))
                \/ /\ aclRet' = GrantResult(granter, u, f, Raised("IntegrityError"),
                                           HasEntry(u, f))
                   /\ UNCHANGED permissions
        /\ UNCHANGED <<folders, superusers, indexVars, refVars, cacheVars, ragVars, routeVars, syncVars, uploadVars, oauthVars>>

\* PermissionService.grant_permission
GrantPermission(granter, u, f, flags) ==
    LET g == GrantGuard(granter, f)
        entry == [user |-> u, folder |-> f,
                  can_read |-> flags.can_read, can_write |-> flags.can_write,
                  can_delete |-> flags.can_delete, is_admin |-> flags.is_admin,
                  granted_by |-> granter]
    IN  /\ IF g # "none"
           THEN /\ aclRet' = GrantResult(granter, u, f, Raised(g), FALSE)
                /\ UNCHANGED permissions
           ELSE IF ~FolderExists(f)
           THEN \* commit() of a row whose folder_id references no folder
                /\ aclRet' = GrantResult(granter, u, f, Raised("IntegrityError"), HasEntry(u, f))
                /\ UNCHANGED permissions
           ELSE IF HasEntry(u, f)
           THEN \* the existing row is updated in place
                /\ permissions' = (permissions \ {FirstEntry(u, f)}) \cup {entry}
                /\ aclRet' = GrantResult(granter, u, f, Returned(TRUE), TRUE)
           ELSE \* a new row is added; it carries no email, a column the
                \* mapping declares NOT NULL (models/permission.py line 19),
                \* so the deployed schema decides whether commit() accepts it
                \/ /\ permissions' = permissions \cup {entry}
                   /\ aclRet' = GrantResult(granter, u, f, Returned(TRUE), HasEntry(u, f))
                \/ /\ aclRet' = GrantResult(granter, u, f, Raised("IntegrityError"),
                                           HasEntry(u, f))
                   /\ UNCHANGED permissions
        /\ UNCHANGED <<folders, superusers, indexVars, refVars, cacheVars, ragVars, routeVars, syncVars, uploadVars, oauthVars>>

\* The authorization part of revoke_permission (lines 169-180).
RevokeGuard(revoker, f) ==
    IF revoker \in superusers THEN "none"
    ELSE IF ~FolderExists(f) THEN "NotFound"
    ELSE IF folders[f].owner # revoker
            /\ ~check_folder_permission(revoker, f, "admin").value
         THEN "PermissionDenied"
    ELSE "none"

\* PermissionService.revoke_permission
RevokePermission(revoker, u, f) ==
    LET g == RevokeGuard(revoker, f)
    IN  /\ IF g # "none"
           THEN /\ aclRet' = AclResult("revoke", u, f, "none", Raised(g), NoList)
                /\ UNCHANGED permissions
           ELSE IF HasEntry(u, f)
           THEN /\ permissions' = permissions \ {FirstEntry(u, f)}
                /\ aclRet' = AclResult("revoke", u, f, "none", Returned(TRUE), NoList)
           ELSE /\ aclRet' = AclResult("revoke", u, f, "none", Returned(FALSE), NoList)
                /\ UNCHANGED permissions
        /\ UNCHANGED <<folders, superusers, indexVars, refVars, cacheVars, ragVars, routeVars, syncVars, uploadVars, oauthVars>>

(***************************************************************************)
(* Semantic retrieval index: documents, embeddings, ingestion, search      *)
(***************************************************************************)
Docs == {"d1", "d2"}

\* The folders that hold the documents of the index.
DocFolders == {"A", "B"}

\* Embedding vectors, all of norm 5, so that cosine similarity is dot / 25.
ChunkVectors == {<<5, 0>>, <<0, 5>>}

QueryVectors == {<<5, 0>>, <<4, 3>>}

\* Similarity thresholds and result limits of a search, similarity in percent.
MinSimilarities == {0, 70}

Limits == {1, 2}

\* 1 - (e.embedding <=> :query_embedding), the cosine similarity, in percent
Similarity(q, e) == ((q[1] * e[1] + q[2] * e[2]) * 100) \div 25

\* db.query(Embedding).filter(Embedding.document_id == d)
ChunksOf(d) == { e \in embeddings : e.document_id = d }

\* The rows the WHERE clause of the similarity query keeps, were the folder
\* condition left out.
EligibleRows_noscope(q, scope, min_similarity) ==
    { e \in embeddings : Similarity(q, e.embedding) >= min_similarity }

\* The rows the WHERE clause of the similarity query keeps (lines 165-169).
EligibleRows(q, scope, min_similarity) ==
    { e \in embeddings :
        /\ documents[e.document_id] \in scope
        /\ Similarity(q, e.embedding) >= min_similarity }

Min2(a, b) == IF a < b THEN a ELSE b

\* ORDER BY distance LIMIT :limit over a set of rows: every list of the
\* right length in order of descending similarity that leaves out no row
\* more similar than one it contains.  Rows of equal distance come in the
\* order the store happens to produce.
OrderedLimited(rows, q, limit) ==
    LET n == Min2(limit, Cardinality(rows))
    IN  { s \in [1..n -> rows] :
            /\ \A i, j \in 1..n : i < j =>
                  /\ s[i] # s[j]
                  /\ Similarity(q, s[i].embedding) >= Similarity(q, s[j].embedding)
            /\ \A e \in rows : \A i \in 1..n :
                  (\A k \in 1..n : s[k] # e) =>
                      Similarity(q, e.embedding) <= Similarity(q, s[i].embedding) }

\* One row of the result (lines 181-191).
ResultRow(e) ==
    [document_id |-> e.document_id, folder_id |-> documents[e.document_id],
     chunk_index |-> e.chunk_index,
     embedding |-> e.embedding]

IndexResult(op, doc, q, scope, exc, rows) ==
    [op |-> op, doc |-> doc, query |-> q, scope |-> scope, exc |-> exc, rows |-> rows]

\* EmbeddingService.search_similar_chunks
SearchSimilarChunks(q, scope, limit, min_similarity) ==
    /\ IF scope = {}
       THEN \* "WHERE d.folder_id IN ()" is rejected by the store; the
            \* exception is re-raised as BadRequestException (lines 195-197)
            indexRet' = IndexResult("search", "none", q, scope, "BadRequest", <<>>)
       ELSE \E s \in OrderedLimited(EligibleRows(q, scope, min_similarity), q, limit) :
               indexRet' = IndexResult("search", "none", q, scope, "none",
                                       [i \in 1..Len(s) |-> ResultRow(s[i])])
    /\ UNCHANGED <<documents, embeddings, ingestPc, indexed, aclVars, refVars, cacheVars, ragVars, routeVars, syncVars, uploadVars, oauthVars>>

\* process_document_embeddings, lines 43-60: the document is looked up and
\* its existing embeddings are deleted, and the deletion is committed.
IngestBegin(d) ==
    /\ ingestPc[d] = "idle"
    /\ embeddings' = IF ChunksOf(d) # {} THEN embeddings \ ChunksOf(d) ELSE embeddings
    /\ ingestPc' = [ingestPc EXCEPT ![d] = "processing"]
    /\ indexRet' = IndexResult("ingest_begin", d, <<>>, {}, "none", <<>>)
    /\ UNCHANGED <<documents, indexed, aclVars, refVars, cacheVars, ragVars, routeVars, syncVars, uploadVars, oauthVars>>

\* process_document_embeddings, lines 62-107: text extraction, chunking and
\* the embedding call succeed; one row per chunk is added and committed.
IngestCommit(d, vecs) ==
    /\ ingestPc[d] = "processing"
    /\ embeddings' = embeddings \cup
          { [document_id |-> d, chunk_index |-> i - 1, embedding |-> vecs[i]] :
                i \in 1..Len(vecs) }
    /\ ingestPc' = [ingestPc EXCEPT ![d] = "idle"]
    /\ indexed' = indexed \cup {d}
    /\ indexRet' = IndexResult("ingest", d, <<>>, {}, "none", <<>>)
    /\ UNCHANGED <<documents, aclVars, refVars, cacheVars, ragVars, routeVars, syncVars, uploadVars, oauthVars>>

\* process_document_embeddings, lines 62-86 and 109-112: text extraction
\* fails, the text is empty, no chunk results or the embedding call fails;
\* the session is rolled back and BadRequestException is raised.  Nothing
\* is pending in the session at that point, the deletion being committed.
IngestFail(d) ==
    /\ ingestPc[d] = "processing"
    /\ ingestPc' = [ingestPc EXCEPT ![d] = "idle"]
    /\ indexRet' = IndexResult("ingest", d, <<>>, {}, "BadRequest", <<>>)
    /\ UNCHANGED <<documents, embeddings, indexed, aclVars, refVars, cacheVars, ragVars, routeVars, syncVars, uploadVars, oauthVars>>

\* EmbeddingService.delete_document_embeddings
DeleteDocumentEmbeddings(d) ==
    /\ ingestPc[d] = "idle"
    /\ embeddings' = embeddings \ ChunksOf(d)
    /\ indexed' = indexed \ {d}
    /\ indexRet' = IndexResult("delete", d, <<>>, {}, "none", <<>>)
    /\ UNCHANGED <<documents, ingestPc, aclVars, refVars, cacheVars, ragVars, routeVars, syncVars, uploadVars, oauthVars>>

\* The chunk vectors an ingestion may store: 1 to MaxChunks of them.
ChunkLists == UNION { [1..n -> ChunkVectors] : n \in 1..MaxChunks }

(***************************************************************************)
(* Conversational query reformulation                                      *)
(***************************************************************************)
\* Texts are sequences of characters.
Whitespace == {" "}

\* str.strip()
RECURSIVE LStrip(_)
LStrip(t) == IF t # <<>> /\ Head(t) \in Whitespace THEN LStrip(Tail(t)) ELSE t

RECURSIVE RStrip(_)
RStrip(t) ==
    IF t # <<>> /\ t[Len(t)] \in Whitespace THEN RStrip(SubSeq(t, 1, Len(t) - 1)) ELSE t

Strip(t) == RStrip(LStrip(t))

\* str.lower(), on the letters the texts of the model use
UpperLetters == <<"A", "B", "C", "D", "E", "F", "G", "H", "I", "J", "K", "L", "M", "N", "O", "P", "Q", "R", "S", "T", "U", "V", "W", "X", "Y", "Z">>

LowerLetters == <<"a", "b", "c", "d", "e", "f", "g", "h", "i", "j", "k", "l", "m", "n", "o", "p", "q", "r", "s", "t", "u", "v", "w", "x", "y", "z">>

LowerChar(c) ==
    IF \E i \in 1..26 : UpperLetters[i] = c
    THEN LowerLetters[CHOOSE i \in 1..26 : UpperLetters[i] = c]
    ELSE c

Lower(t) == [i \in 1..Len(t) |-> LowerChar(t[i])]

\* The contents a user turn and an assistant turn may have.
UserTexts == { <<"h", "e", "l", "l", "o">>, <<" ", "h", "e", "l", "l", "o">> }

AssistantTexts == { <<"o", "k">> }

Turns ==
    { [role |-> "user", content |-> t] : t \in UserTexts }
        \cup { [role |-> "assistant", content |-> t] : t \in AssistantTexts }

Conversations == UNION { [1..n -> Turns] : n \in 0..MaxTurns }

\* What the call of the completion service does: it returns a message with
\* a text, returns a message without content (None), or raises.
CompletionTexts ==
    { <<>>, <<" ", " ">>, <<"h", "i">>, <<"h", "e", "l", "l", "o">>, <<"H", "E", "L", "L", "O">>, <<" ", "H", "E", "L", "L", "O", " ">>, <<"h", "e", "l", "l", "o", " ", "a", "l", "l">> }

CompletionOutcomes ==
    { [kind |-> "text", content |-> t] : t \in CompletionTexts }
        \cup { [kind |-> "none", content |-> <<>>], [kind |-> "raise", content |-> <<>>] }

MaxHistories == {2, 5}

\* [msg for msg in messages if msg.role == "user"]
UserMessages(messages) == SelectSeq(messages, LAMBDA m : m.role = "user")

\* user_messages[-1].content
LatestQuery(messages) == UserMessages(messages)[Len(UserMessages(messages))].content

\* messages[-(max_history + 1):-1] if len(messages) > max_history else messages[:-1]
ContextMessages(messages, max_history) ==
    IF Len(messages) > max_history
    THEN SubSeq(messages, Len(messages) - max_history, Len(messages) - 1)
    ELSE SubSeq(messages, 1, Len(messages) - 1)

RefOutcome(exc, value, called, context) ==
    [exc |-> exc, value |-> value, called |-> called, context |-> context]

\* The validation of the rewrite in rag_service.py (lines 302-308).
ValidatedRewrite(content, latest_query) ==
    LET reformulated == Strip(content)
    IN  IF reformulated = <<>> \/ Len(reformulated) < 5
        THEN latest_query
        ELSE reformulated

\* The validation of the rewrite in rag_service_enhanced.py (lines 474-480).
ValidatedRewriteEnhanced(content, latest_query) ==
    LET reformulated == Strip(content)
    IN  IF \/ reformulated = <<>>
           \/ Len(reformulated) < 5
           \/ Lower(reformulated) = Lower(latest_query)
        THEN latest_query
        ELSE reformulated

\* Variant without the early return for a single turn: the completion
\* service is asked for a rewrite whatever the length of the conversation.
reformulate_query_always(messages, max_history, completion, enhanced) ==
    IF UserMessages(messages) = <<>>
    THEN RefOutcome("BadRequest", <<>>, FALSE, <<>>)
    ELSE LET latest_query == LatestQuery(messages)
             context_messages == ContextMessages(messages, max_history)
         IN  IF completion.kind \in {"raise", "none"}
             THEN RefOutcome("none", latest_query, TRUE, context_messages)
             ELSE RefOutcome("none",
                      IF enhanced
                      THEN ValidatedRewriteEnhanced(completion.content, latest_query)
                      ELSE ValidatedRewrite(completion.content, latest_query),
                      TRUE, context_messages)

\* Variant without the try/except around the completion call.
reformulate_query_unguarded(messages, max_history, completion, enhanced) ==
    IF UserMessages(messages) = <<>>
    THEN RefOutcome("BadRequest", <<>>, FALSE, <<>>)
    ELSE LET latest_query == LatestQuery(messages)
         IN  IF Len(messages) <= 1
             THEN RefOutcome("none", latest_query, FALSE, <<>>)
             ELSE LET context_messages == ContextMessages(messages, max_history)
                  IN  IF completion.kind = "raise"
                      THEN RefOutcome("CompletionError", <<>>, TRUE, context_messages)
                      ELSE IF completion.kind = "none"
                      THEN RefOutcome("AttributeError", <<>>, TRUE, context_messages)
                      ELSE RefOutcome("none",
                               IF enhanced
                               THEN ValidatedRewriteEnhanced(completion.content, latest_query)
                               ELSE ValidatedRewrite(completion.content, latest_query),
                               TRUE, context_messages)

\* RAGService._reformulate_query; enhanced selects the variant of
\* rag_service_enhanced.py, which differs in the validation only.
reformulate_query(messages, max_history, completion, enhanced) ==
    IF UserMessages(messages) = <<>>
    THEN RefOutcome("BadRequest", <<>>, FALSE, <<>>)
    ELSE LET latest_query == LatestQuery(messages)
         IN  IF Len(messages) <= 1
             THEN RefOutcome("none", latest_query, FALSE, <<>>)
             ELSE LET context_messages == ContextMessages(messages, max_history)
                  IN  IF completion.kind = "raise"
                      THEN \* except Exception: return latest_query
                           RefOutcome("none", latest_query, TRUE, context_messages)
                      ELSE IF completion.kind = "none"
                      THEN \* None.strip() raises AttributeError, caught alike
                           RefOutcome("none", latest_query, TRUE, context_messages)
                      ELSE RefOutcome("none",
                               IF enhanced
                               THEN ValidatedRewriteEnhanced(completion.content, latest_query)
                               ELSE ValidatedRewrite(completion.content, latest_query),
                               TRUE, context_messages)

RefResult(op, enhanced, messages, max_history, completion, r) ==
    [op |-> op, enhanced |-> enhanced, messages |-> messages,
     max_history |-> max_history, completion |-> completion,
     exc |-> r.exc, value |-> r.value, called |-> r.called, context |-> r.context]

NoCompletion == [kind |-> "none", content |-> <<>>]

\* A call of _reformulate_query of rag_service.py.
ReformulateQuery ==
    /\ refRet.op = "none"
    /\ refRet' = RefResult("reformulate", FALSE, refIn.messages, refIn.max_history,
                           refIn.completion,
                           reformulate_query(refIn.messages, refIn.max_history,
                                             refIn.completion, FALSE))
    /\ UNCHANGED <<refIn, aclVars, indexVars, cacheVars, ragVars, routeVars, syncVars, uploadVars, oauthVars>>

\* A call of _reformulate_query of rag_service_enhanced.py.
ReformulateQueryEnhanced ==
    /\ refRet.op = "none"
    /\ refRet' = RefResult("reformulate", TRUE, refIn.messages, refIn.max_history,
                           refIn.completion,
                           reformulate_query(refIn.messages, refIn.max_history,
                                             refIn.completion, TRUE))
    /\ UNCHANGED <<refIn, aclVars, indexVars, cacheVars, ragVars, routeVars, syncVars, uploadVars, oauthVars>>

\* The window of the conversation that chat hands to _reformulate_query.
ContextWindowSize == 5

\* chat_request.messages[-5:] if len(messages) > 5 else messages
RecentMessages(messages) ==
    IF Len(messages) > ContextWindowSize
    THEN SubSeq(messages, Len(messages) - ContextWindowSize + 1, Len(messages))
    ELSE messages

\* The reformulation step of RAGService.chat (rag_service.py lines 411-417),
\* reached with a non-empty conversation that holds a user turn (lines
\* 330-347): the last five messages are reformulated with the default
\* max_history.
ChatReformulate ==
    /\ refRet.op = "none"
    /\ refIn.messages # <<>>
    /\ UserMessages(refIn.messages) # <<>>
    /\ refRet' = RefResult("chat_reformulate", FALSE, refIn.messages, 5, refIn.completion,
                           reformulate_query(RecentMessages(refIn.messages), 5,
                                             refIn.completion, FALSE))
    /\ UNCHANGED <<refIn, aclVars, indexVars, cacheVars, ragVars, routeVars, syncVars, uploadVars, oauthVars>>

(***************************************************************************)
(* Tabular datasets: object storage, metadata and the DataFrame cache      *)
(***************************************************************************)
\* The MCPDataProcessor objects alive at a time; "p1" was built with a
\* database session, "p2" without one.
Processors == {"p1", "p2"}

HasDb(p) == p = "p1"

\* file_id = f"{user_id}_{folder_id}_{filename}"
FileIds == {"alice_A_sales.csv"}

\* self.CACHE_TIMEOUT
CACHE_TIMEOUT == 300

\* The amounts of time that pass between two calls.
TickSteps == {150}

\* No object under the name of the dataset.
Absent == 0

Put(fn, k, v) == [x \in DOMAIN fn \cup {k} |-> IF x = k THEN v ELSE fn[x]]

Del(fn, k) == [x \in DOMAIN fn \ {k} |-> fn[x]]

NoEntries == [x \in {} |-> 0]

CacheResult(op, p, f, exc, df, fetched) ==
    [op |-> op, proc |-> p, file |-> f, exc |-> exc, df |-> df, fetched |-> fetched]

\* The number of the upload that produced the stored contents, which stands
\* for the contents.
NextContents(f) == objects[f] + 1

\* upload_file, every step succeeding: the object is stored and read back,
\* and the metadata record is created or updated (lines 43-158).  df_cache
\* is not touched.
UploadFile(p, f) ==
    /\ NextContents(f) <= MaxUploads
    /\ objects' = [objects EXCEPT ![f] = NextContents(f)]
    /\ IF HasDb(p)
       THEN /\ dbMetadata' = dbMetadata \cup {f}
            /\ UNCHANGED file_metadata
       ELSE /\ file_metadata' = [file_metadata EXCEPT ![p] = @ \cup {f}]
            /\ UNCHANGED dbMetadata
    /\ cacheRet' = CacheResult("upload", p, f, "none", NextContents(f), FALSE)
    /\ UNCHANGED <<mcpDocuments, df_cache, now, aclVars, indexVars, refVars, ragVars, routeVars, syncVars, uploadVars, oauthVars>>

\* upload_file failing (storage error, unreadable file): the handler at lines
\* 160-166 removes the object of that name, ignoring a failure to do so, and
\* raises BadRequestException.
UploadFileFails(p, f, removed) ==
    /\ objects' = [objects EXCEPT ![f] = IF removed THEN Absent ELSE @]
    /\ cacheRet' = CacheResult("upload", p, f, "BadRequest", Absent, FALSE)
    /\ UNCHANGED <<dbMetadata, mcpDocuments, df_cache, file_metadata, now,
                   aclVars, indexVars, refVars, ragVars, routeVars, syncVars, uploadVars, oauthVars>>

\* The lookup with the boundary on the wrong side: an entry exactly
\* CACHE_TIMEOUT old still counts as fresh.
CacheHit_inclusive(p, f) ==
    /\ f \in DOMAIN df_cache[p]
    /\ now - df_cache[p][f].timestamp <= CACHE_TIMEOUT

\* The cache lookup of read_file (lines 172-182): a hit when the entry is
\* younger than CACHE_TIMEOUT.
CacheHit(p, f) ==
    /\ f \in DOMAIN df_cache[p]
    /\ now - df_cache[p][f].timestamp < CACHE_TIMEOUT

\* df_cache after the lookup missed: an expired entry is deleted.
AfterLookup(p, f) ==
    IF f \in DOMAIN df_cache[p] THEN Del(df_cache[p], f) ELSE df_cache[p]

\* The metadata lookup of read_file (lines 184-302): "local" when the
\* processor holds the metadata, "db" when the record is loaded from the
\* database, "created" when it is created from the Document table, and the
\* exception otherwise.
MetadataLookup(p, f) ==
    IF f \in file_metadata[p] THEN "local"
    ELSE IF ~HasDb(p) THEN "BadRequest"
    ELSE IF f \in dbMetadata THEN "db"
    ELSE IF f \in mcpDocuments /\ objects[f] # Absent THEN "created"
    ELSE "BadRequest"

\* MCPDataProcessor.read_file
ReadFile(p, f) ==
    IF CacheHit(p, f)
    THEN /\ cacheRet' = CacheResult("read", p, f, "none", df_cache[p][f].df, FALSE)
         /\ UNCHANGED <<objects, dbMetadata, mcpDocuments, df_cache, file_metadata, now,
                        aclVars, indexVars, refVars, ragVars, routeVars, syncVars, uploadVars, oauthVars>>
    ELSE LET m == MetadataLookup(p, f)
         IN  IF m = "BadRequest"
             THEN /\ df_cache' = [df_cache EXCEPT ![p] = AfterLookup(p, f)]
                  /\ cacheRet' = CacheResult("read", p, f, "BadRequest", Absent, FALSE)
                  /\ UNCHANGED <<objects, dbMetadata, mcpDocuments, file_metadata, now,
                                 aclVars, indexVars, refVars, ragVars, routeVars, syncVars, uploadVars, oauthVars>>
             ELSE /\ file_metadata' = [file_metadata EXCEPT ![p] = @ \cup {f}]
                  /\ dbMetadata' = IF m = "created" THEN dbMetadata \cup {f} ELSE dbMetadata
                  /\ IF objects[f] = Absent
                     THEN \* _read_file_from_minio raises
                          /\ df_cache' = [df_cache EXCEPT ![p] = AfterLookup(p, f)]
                          /\ cacheRet' = CacheResult("read", p, f, "BadRequest", Absent, TRUE)
                     ELSE /\ df_cache' = [df_cache EXCEPT ![p] =
                                 Put(AfterLookup(p, f), f,
                                     [df |-> objects[f], timestamp |-> now])]
                          /\ cacheRet' = CacheResult("read", p, f, "none", objects[f], TRUE)
                  /\ UNCHANGED <<objects, mcpDocuments, now, aclVars, indexVars, refVars, ragVars, routeVars, syncVars, uploadVars, oauthVars>>

\* A request ends and the next one builds its processor anew (__init__,
\* lines 39-41): the caches start empty.
NewProcessor(p) ==
    /\ df_cache' = [df_cache EXCEPT ![p] = NoEntries]
    /\ file_metadata' = [file_metadata EXCEPT ![p] = {}]
    /\ cacheRet' = CacheResult("init", p, "none", "none", Absent, FALSE)
    /\ UNCHANGED <<objects, dbMetadata, mcpDocuments, now, aclVars, indexVars, refVars, ragVars, routeVars, syncVars, uploadVars, oauthVars>>

\* time.time() advances between calls.
Tick(d) ==
    /\ now + d <= MaxTime
    /\ now' = now + d
    /\ UNCHANGED <<objects, dbMetadata, mcpDocuments, df_cache, file_metadata, cacheRet,
                   aclVars, indexVars, refVars, ragVars, routeVars, syncVars, uploadVars, oauthVars>>

(***************************************************************************)
(* RAGService (rag_service.py): query and chat                             *)
(***************************************************************************)
\* keyword in query_lower
Contains(t, kw) ==
    \E i \in 1..(Len(t) - Len(kw) + 1) : SubSeq(t, i, i + Len(kw) - 1) = kw

\* csv_excel_keywords (rag_service.py lines 479-485)
csv_excel_keywords ==
    { <<"s", "u", "m">>,
      <<"a", "v", "e", "r", "a", "g", "e">>,
      <<"a", "v", "g">>,
      <<"t", "o", "t", "a", "l">>,
      <<"c", "o", "u", "n", "t">>,
      <<"m", "a", "x">>,
      <<"m", "i", "n">>,
      <<"m", "e", "a", "n">>,
      <<"c", "a", "l", "c", "u", "l", "a", "t", "e">>,
      <<"c", "o", "m", "p", "u", "t", "a", "t", "i", "o", "n">>,
      <<"a", "g", "g", "r", "e", "g", "a", "t", "i", "o", "n">>,
      <<"a", "n", "a", "l", "y", "t", "i", "c", "s">>,
      <<"a", "n", "a", "l", "y", "s", "i", "s">>,
      <<"d", "e", "s", "c", "r", "i", "b", "e">>,
      <<"s", "t", "a", "t", "i", "s", "t", "i", "c", "s">>,
      <<"c", "s", "v">>,
      <<"e", "x", "c", "e", "l">>,
      <<"x", "l", "s", "x">>,
      <<"x", "l", "s">>,
      <<"d", "a", "t", "a", "f", "r", "a", "m", "e">>,
      <<"t", "a", "b", "l", "e">>,
      <<"r", "o", "w", "s">>,
      <<"c", "o", "l", "u", "m", "n", "s">>,
      <<"p", "i", "v", "o", "t">>,
      <<"f", "i", "l", "t", "e", "r">>,
      <<"g", "r", "o", "u", "p">>,
      <<"s", "o", "r", "t">>,
      <<"r", "a", "n", "k">>,
      <<"t", "o", "p">>,
      <<"b", "o", "t", "t", "o", "m">>,
      <<"p", "e", "r", "c", "e", "n", "t", "i", "l", "e">> }

has_data_keywords(query) ==
    \E keyword \in csv_excel_keywords : Contains(Lower(query), keyword)

\* Variant that takes the requested folders as they are.
get_accessible_folders_unfiltered(u, requested_folder_ids) ==
    LET accessible_folder_ids == get_user_accessible_folders(u)
    IN  IF requested_folder_ids # <<>>
        THEN requested_folder_ids
        ELSE accessible_folder_ids

\* RAGService._get_accessible_folders
get_accessible_folders(u, requested_folder_ids) ==
    LET accessible_folder_ids == get_user_accessible_folders(u)
    IN  IF requested_folder_ids # <<>>
        THEN SelectSeq(requested_folder_ids,
                       LAMBDA folder_id : folder_id \in SeqRange(accessible_folder_ids))
        ELSE accessible_folder_ids

\* The answers that are fixed texts; an answer of the completion service is
\* the text Generated.
NoDocumentsAnswer == "No relevant documents found for your query."

NoDocumentsChatAnswer ==
    "No relevant documents found for your query. Try uploading documents first or rephrase your question."

McpNoAnalysisAnswer ==
    "I couldn't analyze the CSV/Excel data. Please try rephrasing your question."

McpErrorAnswer ==
    "I encountered an error analyzing the CSV/Excel data. Please try again."

Generated == "generated"

\* What goes wrong during a request: nothing, or the call named.
Faults == {"none", "completion", "embedding", "search", "answer"}

\* What goes wrong on the data-analysis path: the analysis as a whole, the
\* analysis of every dataset or of the dataset of folder A (rag_service.py);
\* the selection of the dataset, the generation of the expression or its
\* execution (rag_service_enhanced.py).
StructuredFaults == {"mcp_error", "mcp_empty", "mcp_partial", "select", "generate", "execute"}

\* The folder lists a request may name; the empty list names none.
RequestedFolders == { <<>>, <<"A">>, <<"B", "A">>, <<"C">> }

\* The conversations of a chat request.
RagConversations ==
    { <<>>,
      << [role |-> "user", content |-> <<"h", "e", "l", "l", "o">>] >>,
      << [role |-> "user", content |-> <<"h", "e", "l", "l", "o">>],
         [role |-> "assistant", content |-> <<"o", "k">>],
         [role |-> "user", content |-> <<" ", "h", "e", "l", "l", "o">>] >>,
      << [role |-> "user", content |-> <<"t", "o", "t", "a", "l", " ", "s", "a", "l", "e", "s">>] >>,
      << [role |-> "user", content |-> <<"h", "e", "l", "l", "o">>],
         [role |-> "assistant", content |-> <<"o", "k">>],
         [role |-> "assistant", content |-> <<"o", "k">>],
         [role |-> "assistant", content |-> <<"o", "k">>],
         [role |-> "assistant", content |-> <<"o", "k">>],
         [role |-> "assistant", content |-> <<"o", "k">>] >>,
      << [role |-> "assistant", content |-> <<"o", "k">>] >>,
      << [role |-> "user", content |-> <<>>] >> }

\* The conversations that ask for an analysis of tabular data.
DataConversations ==
    { << [role |-> "user", content |-> <<"t", "o", "t", "a", "l", " ", "s", "a", "l", "e", "s">>] >>,
      << [role |-> "user", content |-> <<"h", "e", "l", "l", "o">>],
         [role |-> "assistant", content |-> <<"o", "k">>],
         [role |-> "user", content |-> <<"s", "a", "l", "a", "r", "y", " ", "o", "f", " ", "e", "m", "p", "l", "o", "y", "e", "e", " ", "o", "n", " ", "a", "v", "e", "r", "a", "g", "e">>] >> }

RagResult(op, exc, answer, sources, total_chunks, scope, embedded, searched) ==
    [op |-> op, exc |-> exc, answer |-> answer, sources |-> sources,
     total_chunks |-> total_chunks, scope |-> scope,
     embedded |-> embedded, searched |-> searched]

RagRaised(op, exc, scope, embedded, searched) ==
    RagResult(op, exc, "", <<>>, 0, scope, embedded, searched)

\* Variant of the retrieval that answers a failing similarity query with
\* the empty result.
Retrieval_swallowing(op, scope, empty_answer) ==
    IF ragIn.fault = "embedding"
    THEN { RagRaised(op, "BadRequest", scope, TRUE, FALSE) }
    ELSE IF ragIn.fault = "search" \/ scope = <<>>
    THEN { RagResult(op, "none", empty_answer, <<>>, 0, scope, TRUE, TRUE) }
    ELSE { IF s = <<>>
           THEN RagResult(op, "none", empty_answer, <<>>, 0, scope, TRUE, TRUE)
           ELSE IF ragIn.fault = "answer"
           THEN RagRaised(op, "BadRequest", scope, TRUE, TRUE)
           ELSE RagResult(op, "none", Generated,
                          [i \in 1..Len(s) |-> ResultRow(s[i])], Len(s),
                          scope, TRUE, TRUE) :
           s \in OrderedLimited(
                    EligibleRows(ragIn.query_embedding, SeqRange(scope),
                                 ragIn.min_relevance_score),
                    ragIn.query_embedding, ragIn.limit) }

\* The part of query and chat from the embedding of the query text to the
\* response (rag_service.py lines 36-81 and 419-466): the possible results.
Retrieval(op, scope, empty_answer) ==
    IF ragIn.fault = "embedding"
    THEN { RagRaised(op, "BadRequest", scope, TRUE, FALSE) }
    ELSE IF ragIn.fault = "search" \/ scope = <<>>
    THEN { RagRaised(op, "BadRequest", scope, TRUE, TRUE) }
    ELSE { IF s = <<>>
           THEN RagResult(op, "none", empty_answer, <<>>, 0, scope, TRUE, TRUE)
           ELSE IF ragIn.fault = "answer"
           THEN RagRaised(op, "BadRequest", scope, TRUE, TRUE)
           ELSE RagResult(op, "none", Generated,
                          [i \in 1..Len(s) |-> ResultRow(s[i])], Len(s),
                          scope, TRUE, TRUE) :
           s \in OrderedLimited(
                    EligibleRows(ragIn.query_embedding, SeqRange(scope),
                                 ragIn.min_relevance_score),
                    ragIn.query_embedding, ragIn.limit) }

\* if not accessible_folders: raise PermissionDeniedException
NoAccessibleFolders(accessible_folders) == accessible_folders = <<>>

\* Variant that answers an empty search like any other.
EmptyAnswerOfQuery_generated == Generated

\* The answer of query when the search returns nothing (lines 47-54).
EmptyAnswerOfQuery == NoDocumentsAnswer

\* RAGService.query
Query ==
    /\ ragRet.op = "none"
    /\ LET accessible_folders == get_accessible_folders(ragIn.user, ragIn.folder_ids)
       IN  IF NoAccessibleFolders(accessible_folders)
           THEN ragRet' = RagRaised("query", "PermissionDenied", accessible_folders,
                                    FALSE, FALSE)
           ELSE ragRet' \in Retrieval("query", accessible_folders, EmptyAnswerOfQuery)
    /\ UNCHANGED <<tabularFolders, ragIn, aclVars, indexVars, refVars, cacheVars, routeVars, syncVars, uploadVars, oauthVars>>

\* for msg in reversed(messages): if msg.role == "user": ...
HasUserMessage(messages) == UserMessages(messages) # <<>>

\* The tabular datasets: filename, columns, folder, and whether the document
\* carries MCP metadata.
Dataset(filename, columns, folder_id, has_mcp) ==
    [filename |-> filename, columns |-> columns, folder_id |-> folder_id,
     has_mcp |-> has_mcp]

SalesCsv == Dataset(<<"s", "a", "l", "e", "s", ".", "c", "s", "v">>, << <<"r", "e", "g", "i", "o", "n">>, <<"t", "o", "t", "a", "l">> >>, "A", TRUE)

HrCsv == Dataset(<<"h", "r", ".", "c", "s", "v">>, << <<"e", "m", "p", "l", "o", "y", "e", "e">>, <<"s", "a", "l", "a", "r", "y">> >>, "A", TRUE)

SalesCsvOfB == Dataset(<<"s", "a", "l", "e", "s", ".", "c", "s", "v">>, << <<"R", "e", "g", "i", "o", "n">>, <<"t", "o", "t", "a", "l">> >>, "B", TRUE)

RegionXlsx == Dataset(<<"r", "e", "g", "i", "o", "n", ".", "x", "l", "s", "x">>, << <<"c", "i", "t", "y">> >>, "B", FALSE)

HrCsvOfB == Dataset(<<"h", "r", ".", "c", "s", "v">>, << <<"e", "m", "p", "l", "o", "y", "e", "e">>, <<"s", "a", "l", "a", "r", "y">> >>, "B", TRUE)

\* The tabular document that a folder of tabularFolders holds.
TabularIn(folder_id) == IF folder_id = "A" THEN SalesCsv ELSE HrCsvOfB

\* csv_excel_files of _is_csv_excel_query: the tabular documents of the
\* accessible folders that carry an MCP file id and a column list.
csv_excel_files(accessible_folders) ==
    LET found == SelectSeq(accessible_folders, LAMBDA f : f \in tabularFolders)
    IN  [i \in 1..Len(found) |-> TabularIn(found[i])]

\* The source that stands for an analysed dataset.
McpSource(file) ==
    [document_id |-> "mcp", folder_id |-> file.folder_id, chunk_index |-> 0,
     embedding |-> <<>>]

\* processed_files: the datasets whose analysis produced a response; with
\* the fault "mcp_empty" none does, with "mcp_partial" the dataset of folder
\* A does not.
processed_files(files) ==
    IF ragIn.fault = "mcp_empty" THEN <<>>
    ELSE IF ragIn.fault = "mcp_partial"
    THEN SelectSeq(files, LAMBDA f : f.folder_id # "A")
    ELSE files

\* Variant of the branch that lets a failure of the analysis as a whole
\* leave chat as an exception.
McpBranch_propagating(files) ==
    IF ragIn.fault = "mcp_error"
    THEN RagRaised("chat", "BadRequest", <<>>, FALSE, FALSE)
    ELSE LET done == processed_files(files)
         IN  RagResult("chat", "none",
                       IF done = <<>> THEN McpNoAnalysisAnswer ELSE Generated,
                       [i \in 1..Len(done) |-> McpSource(done[i])],
                       Len(done), <<>>, FALSE, FALSE)

\* The data-analysis branch of chat (lines 354-408).
McpBranch(files) ==
    IF ragIn.fault = "mcp_error"
    THEN RagResult("chat", "none", McpErrorAnswer, <<>>, 0, <<>>, FALSE, FALSE)
    ELSE LET done == processed_files(files)
         IN  RagResult("chat", "none",
                       IF done = <<>> THEN McpNoAnalysisAnswer ELSE Generated,
                       [i \in 1..Len(done) |-> McpSource(done[i])],
                       Len(done), <<>>, FALSE, FALSE)

\* The behaviour of the completion service during the reformulation.
RagCompletion ==
    IF ragIn.fault = "completion"
    THEN [kind |-> "raise", content |-> <<>>]
    ELSE [kind |-> "text", content |-> <<"h", "e", "l", "l", "o", " ", "a", "l", "l">>]

\* RAGService.chat
Chat ==
    /\ ragRet.op = "none"
    /\ LET messages == ragIn.messages
           accessible_folders == get_accessible_folders(ragIn.user, ragIn.folder_ids)
       IN  IF messages = <<>>
           THEN ragRet' = RagRaised("chat", "BadRequest", <<>>, FALSE, FALSE)
           ELSE IF NoAccessibleFolders(accessible_folders)
           THEN ragRet' = RagRaised("chat", "PermissionDenied", accessible_folders,
                                    FALSE, FALSE)
           ELSE IF ~HasUserMessage(messages) \/ LatestQuery(messages) = <<>>
           THEN ragRet' = RagRaised("chat", "BadRequest", accessible_folders, FALSE, FALSE)
           ELSE IF /\ has_data_keywords(LatestQuery(messages))
                   /\ csv_excel_files(accessible_folders) # <<>>
           THEN ragRet' = McpBranch(csv_excel_files(accessible_folders))
           ELSE LET r == reformulate_query(RecentMessages(messages), 5,
                                           RagCompletion, FALSE)
                IN  IF r.exc # "none"
                    THEN ragRet' = RagRaised("chat", r.exc, accessible_folders,
                                             FALSE, FALSE)
                    ELSE ragRet' \in Retrieval("chat", accessible_folders,
                                               NoDocumentsChatAnswer)
    /\ UNCHANGED <<tabularFolders, ragIn, aclVars, indexVars, refVars, cacheVars, routeVars, syncVars, uploadVars, oauthVars>>

(***************************************************************************)
(* Query routing: _is_csv_excel_query and _select_best_file_for_question   *)
(***************************************************************************)
\* The questions that are routed.
Questions ==
    { <<"w", "h", "a", "t", " ", "i", "s", " ", "e", "n", "c", "r", "y", "p", "t", "i", "o", "n", "?">>,
      <<"e", "x", "p", "l", "a", "i", "n", " ", "t", "o", "t", "a", "l", " ", "s", "a", "l", "e", "s">>,
      <<"D", "e", "s", "c", "r", "i", "b", "e", " ", "t", "h", "e", " ", "t", "a", "b", "l", "e">>,
      <<"t", "o", "t", "a", "l", " ", "b", "y", " ", "r", "e", "g", "i", "o", "n">>,
      <<"h", "o", "w", " ", "t", "o", " ", "s", "o", "r", "t", " ", "r", "o", "w", "s">>,
      <<"h", "e", "l", "l", "o", " ", "t", "h", "e", "r", "e">>,
      <<"s", "a", "l", "a", "r", "y", " ", "o", "f", " ", "e", "m", "p", "l", "o", "y", "e", "e">>,
      <<"m", "a", "x", " ", "p", "r", "i", "c", "e">>,
      <<"c", "o", "u", "n", "t", " ", "t", "h", "e", " ", "r", "o", "w", "s">> }

\* The lists of datasets found in the accessible folders.
DatasetLists ==
    { <<>>, << SalesCsv >>, << RegionXlsx >>, << SalesCsv, HrCsv >>, << HrCsv, SalesCsv >>,
      << SalesCsv, SalesCsvOfB >>, << HrCsv, RegionXlsx, SalesCsv >> }

\* The answers of the completion service to the classification prompt.
Classifications == {"STRUCTURED", "DOCUMENT", "raise"}

RouteResult(op, structured, files, selected) ==
    [op |-> op, structured |-> structured, files |-> files, selected |-> selected]

NoDataset == Dataset(<<>>, <<>>, "none", FALSE)

\* RAGService._is_csv_excel_query of rag_service.py, on the datasets found
\* (line 555).
is_csv_excel_query(query, csv_excel_files_found) ==
    [structured |-> has_data_keywords(query) /\ Len(csv_excel_files_found) > 0,
     files |-> csv_excel_files_found]

\* is_data_keywords of rag_service_enhanced.py (lines 957-961)
enhanced_data_keywords ==
    { <<"a", "v", "e", "r", "a", "g", "e">>,
      <<"s", "u", "m">>,
      <<"c", "o", "u", "n", "t">>,
      <<"t", "o", "t", "a", "l">>,
      <<"t", "o", "p", " ">>,
      <<"h", "i", "g", "h", "e", "s", "t">>,
      <<"l", "o", "w", "e", "s", "t">>,
      <<"m", "i", "n", "i", "m", "u", "m">>,
      <<"m", "a", "x", "i", "m", "u", "m">>,
      <<"m", "e", "a", "n">>,
      <<"m", "e", "d", "i", "a", "n">>,
      <<"m", "i", "n">>,
      <<"m", "a", "x">>,
      <<"h", "o", "w", " ", "m", "a", "n", "y">>,
      <<"h", "o", "w", " ", "m", "u", "c", "h">>,
      <<"f", "i", "l", "t", "e", "r">>,
      <<"s", "o", "r", "t">>,
      <<"a", "g", "g", "r", "e", "g", "a", "t", "e">>,
      <<"g", "r", "o", "u", "p", " ", "b", "y">>,
      <<"w", "i", "s", "e">>,
      <<"b", "y", " ", "r", "e", "g", "i", "o", "n">>,
      <<"b", "y", " ", "c", "a", "t", "e", "g", "o", "r", "y">>,
      <<"b", "y", " ", "p", "r", "o", "d", "u", "c", "t">>,
      <<"b", "y", " ", "d", "a", "t", "e">>,
      <<"b", "y", " ", "t", "i", "m", "e">> }

\* is_system_keywords (lines 964-968)
system_keywords ==
    { <<"h", "o", "w", " ", "t", "o">>,
      <<"w", "h", "a", "t", " ", "i", "s">>,
      <<"e", "x", "p", "l", "a", "i", "n">>,
      <<"d", "e", "s", "c", "r", "i", "b", "e">>,
      <<"s", "e", "t", "u", "p">>,
      <<"c", "o", "n", "f", "i", "g", "u", "r", "a", "t", "i", "o", "n">>,
      <<"a", "r", "c", "h", "i", "t", "e", "c", "t", "u", "r", "e">>,
      <<"f", "e", "a", "t", "u", "r", "e">>,
      <<"c", "a", "p", "a", "b", "i", "l", "i", "t", "y">>,
      <<"s", "y", "s", "t", "e", "m">>,
      <<"f", "r", "a", "m", "e", "w", "o", "r", "k">>,
      <<"p", "o", "c">>,
      <<"r", "e", "p", "o", "r", "t">>,
      <<"d", "o", "c", "u", "m", "e", "n", "t", "a", "t", "i", "o", "n">>,
      <<"g", "u", "i", "d", "e">>,
      <<"o", "v", "e", "r", "v", "i", "e", "w">> }

\* data_keywords of the fallback (line 1043)
fallback_data_keywords ==
    { <<"a", "v", "e", "r", "a", "g", "e">>,
      <<"s", "u", "m">>,
      <<"c", "o", "u", "n", "t">>,
      <<"t", "o", "t", "a", "l">>,
      <<"t", "o", "p">>,
      <<"h", "i", "g", "h", "e", "s", "t">>,
      <<"l", "o", "w", "e", "s", "t">>,
      <<"m", "i", "n", "i", "m", "u", "m">>,
      <<"m", "a", "x", "i", "m", "u", "m">>,
      <<"m", "e", "a", "n">>,
      <<"m", "e", "d", "i", "a", "n">>,
      <<"f", "i", "l", "t", "e", "r">>,
      <<"s", "o", "r", "t">>,
      <<"a", "g", "g", "r", "e", "g", "a", "t", "e">>,
      <<"g", "r", "o", "u", "p", " ", "b", "y">>,
      <<"w", "i", "s", "e">> }

is_system_keywords(query) ==
    \E keyword \in system_keywords : Contains(Lower(query), keyword)

\* mcp_files or all_csv_excel_docs
McpFilesOrAll(all_csv_excel_docs) ==
    LET mcp_files == SelectSeq(all_csv_excel_docs, LAMBDA f : f.has_mcp)
    IN  IF mcp_files # <<>> THEN mcp_files ELSE all_csv_excel_docs

\* RAGService._is_csv_excel_query of rag_service_enhanced.py
is_csv_excel_query_enhanced(query, all_csv_excel_docs, classification) ==
    IF all_csv_excel_docs = <<>>
    THEN [structured |-> FALSE, files |-> <<>>]
    ELSE IF is_system_keywords(query)
    THEN [structured |-> FALSE, files |-> <<>>]
    ELSE IF classification = "STRUCTURED"
    THEN [structured |-> TRUE, files |-> McpFilesOrAll(all_csv_excel_docs)]
    ELSE IF classification = "DOCUMENT"
    THEN [structured |-> FALSE, files |-> <<>>]
    ELSE IF \E keyword \in fallback_data_keywords : Contains(Lower(query), keyword)
    THEN [structured |-> TRUE, files |-> McpFilesOrAll(all_csv_excel_docs)]
    ELSE [structured |-> FALSE, files |-> <<>>]

IsCsvExcelQuery ==
    /\ routeRet.op = "none"
    /\ LET r == is_csv_excel_query(routeIn.question, routeIn.files)
       IN  routeRet' = RouteResult("is_csv_excel_query", r.structured, r.files, NoDataset)
    /\ UNCHANGED <<routeIn, aclVars, indexVars, refVars, cacheVars, ragVars, syncVars, uploadVars, oauthVars>>

IsCsvExcelQueryEnhanced ==
    /\ routeRet.op = "none"
    /\ LET r == is_csv_excel_query_enhanced(routeIn.question, routeIn.files,
                                            routeIn.classification)
       IN  routeRet' = RouteResult("is_csv_excel_query_enhanced", r.structured, r.files,
                                   NoDataset)
    /\ UNCHANGED <<routeIn, aclVars, indexVars, refVars, cacheVars, ragVars, syncVars, uploadVars, oauthVars>>

\* question_lower.replace('?', '').replace('!', '')
RemoveMarks(t) == SelectSeq(t, LAMBDA c : c \notin {"?", "!"})

\* str.split(): the maximal runs of characters that are not whitespace.
RECURSIVE SplitFrom(_, _, _)
SplitFrom(t, i, word) ==
    IF i > Len(t)
    THEN IF word = <<>> THEN {} ELSE {word}
    ELSE IF t[i] \in Whitespace
    THEN (IF word = <<>> THEN {} ELSE {word}) \cup SplitFrom(t, i + 1, <<>>)
    ELSE SplitFrom(t, i + 1, Append(word, t[i]))

question_words(question) == SplitFrom(RemoveMarks(Lower(question)), 1, <<>>)

stop_words ==
    { <<"t", "h", "e">>,
      <<"a", "n", "d">>,
      <<"f", "o", "r">>,
      <<"w", "i", "t", "h">>,
      <<"f", "r", "o", "m">>,
      <<"w", "h", "a", "t">>,
      <<"w", "h", "i", "c", "h">>,
      <<"w", "h", "o">>,
      <<"h", "o", "w">>,
      <<"w", "h", "e", "n">>,
      <<"w", "h", "e", "r", "e">>,
      <<"w", "h", "y">>,
      <<"a", "r", "e">>,
      <<"w", "a", "s">>,
      <<"w", "e", "r", "e">>,
      <<"h", "a", "s">>,
      <<"h", "a", "v", "e">>,
      <<"h", "a", "d">>,
      <<"b", "u", "t">>,
      <<"c", "a", "n">>,
      <<"d", "i", "d">>,
      <<"d", "o", "e", "s">>,
      <<"m", "a", "y">>,
      <<"m", "i", "g", "h", "t">>,
      <<"m", "u", "s", "t">>,
      <<"n", "e", "e", "d">>,
      <<"s", "h", "a", "l", "l">>,
      <<"s", "h", "o", "u", "l", "d">>,
      <<"w", "i", "l", "l">>,
      <<"w", "o", "u", "l", "d">>,
      <<"g", "i", "v", "e">>,
      <<"m", "e">>,
      <<"d", "a", "t", "a">>,
      <<"i", "n", "f", "o", "r", "m", "a", "t", "i", "o", "n">> }

Digits == {"0", "1", "2", "3", "4", "5", "6", "7", "8", "9"}

\* key_terms (lines 1075-1092)
key_terms(question) ==
    { word \in question_words(question) :
        \/ Len(word) > 2 /\ word \notin stop_words
        \/ \E i \in 1..Len(word) : word[i] = "_" \/ word[i] \in Digits }

\* The term matches a column: term in col or col in term (line 1107).
MatchesColumn(term, file_info) ==
    \E i \in 1..Len(file_info.columns) :
        LET col == Lower(file_info.columns[i])
        IN  Contains(col, term) \/ Contains(term, col)

\* score of one file (lines 1097-1115)
FileScore(question, file_info) ==
    10 * Cardinality({ term \in key_terms(question) : MatchesColumn(term, file_info) })
    + 2 * Cardinality({ term \in key_terms(question) :
                          Contains(Lower(file_info.filename), term) })

\* file_scores[filename] = {...}: the entry of a filename is written by the
\* last file of the list that bears it.
LastWithName(available_files, filename) ==
    available_files[CHOOSE i \in 1..Len(available_files) :
                       /\ available_files[i].filename = filename
                       /\ \A j \in (i + 1)..Len(available_files) :
                             available_files[j].filename # filename]

\* The keys of file_scores in insertion order: the position at which each
\* filename occurs first.
FirstPositions(available_files) ==
    { i \in 1..Len(available_files) :
        \A j \in 1..(i - 1) : available_files[j].filename # available_files[i].filename }

\* max(file_scores.items(), key=score): the first of the entries with the
\* greatest score (line 1127).
BestPosition(question, available_files) ==
    LET entry(i) == LastWithName(available_files, available_files[i].filename)
        P == FirstPositions(available_files)
    IN  CHOOSE i \in P :
            /\ \A j \in P : FileScore(question, entry(j)) <= FileScore(question, entry(i))
            /\ \A j \in P : j < i =>
                  FileScore(question, entry(j)) < FileScore(question, entry(i))

\* RAGService._select_best_file_for_question; NoDataset stands for None.
select_best_file_for_question(question, available_files) ==
    IF Len(available_files) = 1 THEN available_files[1]
    ELSE IF available_files = <<>> THEN NoDataset
    ELSE LET best == LastWithName(available_files,
                        available_files[BestPosition(question, available_files)].filename)
         IN  IF FileScore(question, best) > 0 THEN best
             ELSE available_files[1]

SelectBestFileForQuestion ==
    /\ routeRet.op = "none"
    /\ routeRet' = RouteResult("select_best_file", FALSE, routeIn.files,
                               select_best_file_for_question(routeIn.question, routeIn.files))
    /\ UNCHANGED <<routeIn, aclVars, indexVars, refVars, cacheVars, ragVars, syncVars, uploadVars, oauthVars>>

(***************************************************************************)
(* The structured branch of chat in rag_service_enhanced.py                *)
(***************************************************************************)
EnhancedMcpFailureAnswer ==
    "I wasn't able to analyze the data using direct methods. Let me try regular document search instead."

\* The text that _generate_fallback_response returns.
FallbackExplanation == "fallback"

\* The branch of chat taken when _is_csv_excel_query answers (True, files)
\* (lines 526-655); the classification prompt is answered by any of
\* Classifications.
ChatEnhancedStructuredBranch ==
    /\ ragRet.op = "none"
    /\ LET messages == ragIn.messages
           accessible_folders == get_accessible_folders(ragIn.user, ragIn.folder_ids)
       IN  /\ messages # <<>>
           /\ ~NoAccessibleFolders(accessible_folders)
           /\ HasUserMessage(messages)
           /\ LatestQuery(messages) # <<>>
           /\ \E classification \in Classifications :
                LET route == is_csv_excel_query_enhanced(LatestQuery(messages),
                                 csv_excel_files(accessible_folders), classification)
                    target_file == select_best_file_for_question(LatestQuery(messages),
                                                                 route.files)
                IN  /\ route.structured
                    /\ route.files # <<>>
                    /\ ragRet' =
                         IF ragIn.fault \in {"select", "execute"}
                         THEN RagResult("chat_enhanced", "none", EnhancedMcpFailureAnswer,
                                        <<>>, 0, <<>>, FALSE, FALSE)
                         ELSE IF ragIn.fault = "generate"
                         THEN RagResult("chat_enhanced", "none", FallbackExplanation,
                                        <<>>, 0, <<>>, FALSE, FALSE)
                         ELSE RagResult("chat_enhanced", "none", Generated,
                                        << McpSource(target_file) >>, 1, <<>>, FALSE, FALSE)
    /\ UNCHANGED <<tabularFolders, ragIn, aclVars, indexVars, refVars, cacheVars, routeVars, syncVars, uploadVars, oauthVars>>

(***************************************************************************)
(* Provider sync (api/sync.py): _sync_single_item                          *)
(***************************************************************************)
Connections == {"c1", "c2"}

\* The SharePoint items a request may name.
SyncItems ==
    { [drive_id |-> "drive", item_id |-> "i1"],
      [drive_id |-> "drive", item_id |-> "i2"] }

\* What the collaborators do during one call: the item is a file and every
\* step succeeds, the item is a folder, or the step named raises.
SyncOutcomes == {"file", "folder", "metadata_raises", "download_raises",
                 "create_raises", "commit_raises"}

\* document_id of the results that carry no document.
NoDocument == 0

\* The number of calls made to each collaborator during one call of
\* _sync_single_item.
Calls(metadata, download, create, embed, add, commit) ==
    [get_item_metadata |-> metadata, download_file |-> download,
     create_document_from_file |-> create,
     process_document_embeddings |-> embed,
     add |-> add, commit |-> commit]

SyncResult(connection, item, status, message, document_id, calls) ==
    [op |-> "sync", connection |-> connection, item |-> item, status |-> status,
     message |-> message, document_id |-> document_id, calls |-> calls]

\* The rows that the idempotency query returns (lines 170-178).
ExistingRefs(connection, item) ==
    { r \in providerRefs : r.drive_id = item.drive_id /\ r.item_id = item.item_id }

\* _sync_single_item; the status "raised" stands for an exception that
\* leaves the function.
SyncSingleItem(connection, item, outcome) ==
    IF ExistingRefs(connection, item) # {}
    THEN /\ syncRet' = SyncResult(connection, item, "skipped", "File already synced",
                           (CHOOSE r \in ExistingRefs(connection, item) : TRUE).document_id,
                           Calls(0, 0, 0, 0, 0, 0))
         /\ UNCHANGED <<providerRefs, syncDocuments>>
    ELSE IF outcome = "metadata_raises"
    THEN /\ syncRet' = SyncResult(connection, item, "raised", "get_item_metadata",
                                  NoDocument, Calls(1, 0, 0, 0, 0, 0))
         /\ UNCHANGED <<providerRefs, syncDocuments>>
    ELSE IF outcome = "folder"
    THEN /\ syncRet' = SyncResult(connection, item, "skipped",
                                  "Folders are not supported for sync (files only)",
                                  NoDocument, Calls(1, 0, 0, 0, 0, 0))
         /\ UNCHANGED <<providerRefs, syncDocuments>>
    ELSE IF outcome = "download_raises"
    THEN /\ syncRet' = SyncResult(connection, item, "raised", "download_file",
                                  NoDocument, Calls(1, 1, 0, 0, 0, 0))
         /\ UNCHANGED <<providerRefs, syncDocuments>>
    ELSE IF outcome = "create_raises"
    THEN /\ syncRet' = SyncResult(connection, item, "raised", "create_document_from_file",
                                  NoDocument, Calls(1, 1, 1, 0, 0, 0))
         /\ UNCHANGED <<providerRefs, syncDocuments>>
    ELSE /\ syncDocuments < MaxSyncDocuments
         /\ syncDocuments' = syncDocuments + 1
         /\ IF outcome = "commit_raises"
            THEN /\ syncRet' = SyncResult(connection, item, "raised", "commit",
                                          NoDocument, Calls(1, 1, 1, 0, 1, 1))
                 /\ UNCHANGED providerRefs
            ELSE /\ providerRefs' = providerRefs \cup
                        { [connection_id |-> connection, drive_id |-> item.drive_id,
                           item_id |-> item.item_id, document_id |-> syncDocuments + 1] }
                 /\ syncRet' = SyncResult(connection, item, "success",
                                          "File synced successfully",
                                          syncDocuments + 1, Calls(1, 1, 1, 0, 1, 1))

SyncItem(connection, item, outcome) ==
    /\ SyncSingleItem(connection, item, outcome)
    /\ UNCHANGED <<aclVars, indexVars, refVars, cacheVars, ragVars, routeVars, uploadVars, oauthVars>>

\* ProviderConnection.user_id of the connections.
ConnectionOwner == [c1 |-> "alice", c2 |-> "bob"]

\* PermissionService.check_folder_access (permission_service.py lines
\* 207-214): raises PermissionDeniedException when the permission is
\* missing, and otherwise ends without a return statement, so that the call
\* evaluates to None, which is false in a condition.
check_folder_access(u, f, ptype) ==
    LET r == check_folder_permission(u, f, ptype)
    IN  IF r.exc # "none" THEN r
        ELSE IF ~r.value THEN Raised("PermissionDenied")
        ELSE Returned(FALSE)

\* The validation of import_from_sharepoint (lines 65-86): the exception it
\* raises, or "none" when the items are processed.
ImportGuard(u, connection, f) ==
    IF ConnectionOwner[connection] # u THEN "NotFound"
    ELSE IF ~FolderExists(f) THEN "NotFound"
    ELSE LET access == check_folder_access(u, f, "write")
         IN  IF access.exc # "none" THEN access.exc
             ELSE IF ~access.value THEN "PermissionDenied"
             ELSE "none"

ImportRejected(u, connection, f, item, exc) ==
    [op |-> "import", user |-> u, folder |-> f, exc |-> exc,
     connection |-> connection, item |-> item, status |-> "raised", message |-> exc,
     document_id |-> NoDocument, calls |-> Calls(0, 0, 0, 0, 0, 0)]

\* import_from_sharepoint for a request that names one item: the validation,
\* and then _sync_single_item for the item (lines 98-130).
ImportFromSharepoint(u, connection, f, item, outcome) ==
    /\ IF ImportGuard(u, connection, f) # "none"
       THEN /\ syncRet' = ImportRejected(u, connection, f, item,
                                         ImportGuard(u, connection, f))
            /\ UNCHANGED <<providerRefs, syncDocuments>>
       ELSE SyncSingleItem(connection, item, outcome)
    /\ UNCHANGED <<aclVars, indexVars, refVars, cacheVars, ragVars, routeVars, uploadVars, oauthVars>>

(***************************************************************************)
(* Document upload (api/documents.py, document_service.py)                 *)
(***************************************************************************)
\* The files a request may carry, with the type get_file_type derives from
\* the name.
UploadedFiles ==
    { [filename |-> "a.pdf", file_type |-> "pdf"],
      [filename |-> "b.docx", file_type |-> "docx"],
      [filename |-> "c.csv", file_type |-> "csv"] }

\* The target folders of the requests; "Z" is the id of no folder.
UploadFolders == {"A", "Z"}

\* What object storage does during fput_object, and what the embedding
\* pipeline does during a call of process_document_embeddings.
StorageOutcomes == {"ok", "S3Error"}

EmbeddingOutcomes == {"ok", "fails"}

\* file_type.lower() in ['csv', 'xlsx', 'xls']
IsTabular(file) == file.file_type \in {"csv", "xlsx", "xls"}

\* The Document row of a file in a folder.
DocumentRow(f, file) ==
    [folder_id |-> f, filename |-> file.filename, file_type |-> file.file_type]

NoDocumentRow == [folder_id |-> "none", filename |-> "none", file_type |-> "none"]

UploadResult(u, exc, document, embedding_failed) ==
    [op |-> "upload", user |-> u, exc |-> exc, document |-> document,
     embedding_failed |-> embedding_failed]

\* The committed rows after the call of process_document_embeddings that
\* DocumentService.upload_document makes for an unstructured document, while
\* the new row is flushed but not committed (document_service.py lines
\* 162-185 and embedding_service.py lines 35-112).  On success the commit of
\* line 98 stores the row together with the embeddings; on failure the
\* rollback of line 110 discards the flushed row, and the commit of
\* upload_document (line 183) has nothing left to store.
AfterFirstEmbedding(document, outcome) ==
    IF outcome = "ok"
    THEN [documents |-> dbDocuments \cup {document},
          embeddings |-> dbEmbeddings \cup {document}]
    ELSE [documents |-> dbDocuments, embeddings |-> dbEmbeddings]

\* The committed rows after the call of process_document_embeddings that the
\* endpoint makes for the returned document (api/documents.py lines 48-56):
\* NotFoundException when the row does not exist; otherwise the existing
\* embeddings are deleted and the deletion is committed, and the new ones
\* are stored unless the pipeline fails.  The endpoint swallows every
\* exception.
AfterSecondEmbedding(db, document, outcome) ==
    IF document \notin db.documents THEN db
    ELSE IF outcome = "ok"
    THEN [db EXCEPT !.embeddings = @ \cup {document}]
    ELSE [db EXCEPT !.embeddings = @ \ {document}]

\* The endpoint upload_document of api/documents.py with
\* DocumentService.upload_document.
UploadDocument(u, f, file, storage, first, second) ==
    /\ LET access == check_folder_access(u, f, "write")
           document == DocumentRow(f, file)
       IN  IF access.exc # "none"
           THEN /\ uploadRet' = UploadResult(u, access.exc, NoDocumentRow, FALSE)
                /\ UNCHANGED <<dbDocuments, dbEmbeddings>>
           ELSE IF ~FolderExists(f)
           THEN /\ uploadRet' = UploadResult(u, "NotFound", NoDocumentRow, FALSE)
                /\ UNCHANGED <<dbDocuments, dbEmbeddings>>
           ELSE IF document \in dbDocuments
           THEN \* "File with this name already exists in the folder"
                /\ uploadRet' = UploadResult(u, "BadRequest", NoDocumentRow, FALSE)
                /\ UNCHANGED <<dbDocuments, dbEmbeddings>>
           ELSE IF storage = "S3Error"
           THEN \* rollback and BadRequestException (lines 188-190)
                /\ uploadRet' = UploadResult(u, "BadRequest", NoDocumentRow, FALSE)
                /\ UNCHANGED <<dbDocuments, dbEmbeddings>>
           ELSE IF IsTabular(file)
           THEN /\ dbDocuments' = dbDocuments \cup {document}
                /\ UNCHANGED dbEmbeddings
                /\ uploadRet' = UploadResult(u, "none", document, FALSE)
           ELSE LET db == AfterSecondEmbedding(AfterFirstEmbedding(document, first),
                                               document, second)
                IN  /\ dbDocuments' = db.documents
                    /\ dbEmbeddings' = db.embeddings
                    /\ uploadRet' = UploadResult(u, "none", document, first = "fails")
    /\ UNCHANGED <<aclVars, indexVars, refVars, cacheVars, ragVars, routeVars, syncVars,
                   oauthVars>>

\* DocumentService.delete_document, every step succeeding (lines 219-236):
\* the row is deleted, and its embeddings with it.
DeleteDocument(document) ==
    /\ document \in dbDocuments
    /\ dbDocuments' = dbDocuments \ {document}
    /\ dbEmbeddings' = dbEmbeddings \ {document}
    /\ uploadRet' = [UploadResult("none", "none", document, FALSE) EXCEPT !.op = "delete"]
    /\ UNCHANGED <<aclVars, indexVars, refVars, cacheVars, ragVars, routeVars, syncVars,
                   oauthVars>>

(***************************************************************************)
(* The OAuth flow of the Confluence provider (api/confluence.py)           *)
(***************************************************************************)
\* The values generate_state_token may return, each of them at most once.
StateTokens == {"s1", "s2", "s3"}

\* The cloud ids that the exchange of the code may yield.
Tenants == {"t1", "t2"}

ExchangeOutcomes == {"ok", "raises"}

InvalidState == "Invalid or expired state parameter"

NoConnection == [user_id |-> "none", tenant_id |-> "none"]

OauthResult(op, u, state, exc, message, connection) ==
    [op |-> op, user |-> u, state |-> state, exc |-> exc, message |-> message,
     connection |-> connection]

\* start_oauth_flow (lines 67-92)
StartOauthFlow(u) ==
    /\ \E state \in StateTokens \ issuedStates :
          /\ oauth_states' = Put(oauth_states, state, u)
          /\ issuedStates' = issuedStates \cup {state}
          /\ oauthRet' = OauthResult("start", u, state, "none", "none", NoConnection)
    /\ UNCHANGED <<providerConnections, aclVars, indexVars, refVars, cacheVars, ragVars,
                   routeVars, syncVars, uploadVars>>

\* Variant of the lookup that leaves the state in the dictionary.
StatesAfterPop_kept(state) == oauth_states

\* _oauth_states after _oauth_states.pop(state, None)
StatesAfterPop(state) ==
    IF state \in DOMAIN oauth_states THEN Del(oauth_states, state) ELSE oauth_states

\* oauth_callback (lines 95-166)
OauthCallback(state, tenant, exchange) ==
    /\ oauth_states' = StatesAfterPop(state)
    /\ IF state \notin DOMAIN oauth_states
       THEN /\ oauthRet' = OauthResult("callback", "none", state, "BadRequest",
                                       InvalidState, NoConnection)
            /\ UNCHANGED providerConnections
       ELSE LET user_id == oauth_states[state]
                connection == [user_id |-> user_id, tenant_id |-> tenant]
            IN  IF user_id \notin Users
                THEN /\ oauthRet' = OauthResult("callback", user_id, state, "NotFound",
                                                "User not found", NoConnection)
                     /\ UNCHANGED providerConnections
                ELSE IF exchange = "raises"
                THEN /\ oauthRet' = OauthResult("callback", user_id, state, "BadRequest",
                                                "exchange_code_for_tokens", NoConnection)
                     /\ UNCHANGED providerConnections
                ELSE /\ providerConnections' = providerConnections \cup {connection}
                     /\ oauthRet' = OauthResult("callback", user_id, state, "none", "none",
                                                connection)
    /\ UNCHANGED <<issuedStates, aclVars, indexVars, refVars, cacheVars, ragVars,
                   routeVars, syncVars, uploadVars>>

(***************************************************************************)
(* Specifications, one per component                                       *)
(***************************************************************************)
AclStart ==
    /\ \E tree \in FolderTrees : \E owners \in FolderOwners :
          folders = [f \in DOMAIN tree |-> [parent |-> tree[f], owner |-> owners[f]]]
    /\ superusers \in {{}, {"alice"}, {"bob"}}
    /\ permissions = {}
    /\ aclRet = AclResult("none", "none", "none", "none", Returned(FALSE), NoList)

AclIdle ==
    /\ folders = [f \in FolderIds |-> [parent |-> NoParent, owner |-> "bob"]]
    /\ superusers = {}
    /\ permissions = {}
    /\ aclRet = AclResult("none", "none", "none", "none", Returned(FALSE), NoList)

IndexStart ==
    /\ documents \in [Docs -> DocFolders]
    /\ embeddings = {}
    /\ ingestPc = [d \in Docs |-> "idle"]
    /\ indexed = {}
    /\ indexRet = IndexResult("none", "none", <<>>, {}, "none", <<>>)

IndexIdle ==
    /\ documents = [d \in Docs |-> "A"]
    /\ embeddings = {}
    /\ ingestPc = [d \in Docs |-> "idle"]
    /\ indexed = {}
    /\ indexRet = IndexResult("none", "none", <<>>, {}, "none", <<>>)

NoRefInput == [messages |-> <<>>, max_history |-> 0, completion |-> NoCompletion]

RefIdle ==
    /\ refIn = NoRefInput
    /\ refRet = RefResult("none", FALSE, <<>>, 0, NoCompletion,
                          RefOutcome("none", <<>>, FALSE, <<>>))

\* The arguments of one call and the behaviour of the completion service
\* during it.
RefStart ==
    /\ refIn \in [messages : Conversations, max_history : MaxHistories,
                   completion : CompletionOutcomes]
    /\ refRet = RefResult("none", FALSE, <<>>, 0, NoCompletion,
                       RefOutcome("none", <<>>, FALSE, <<>>))

CacheStart ==
    /\ objects = [f \in FileIds |-> Absent]
    /\ dbMetadata = {}
    /\ mcpDocuments \in SUBSET FileIds
    /\ df_cache = [p \in Processors |-> NoEntries]
    /\ file_metadata = [p \in Processors |-> {}]
    /\ now = 0
    /\ cacheRet = CacheResult("none", "none", "none", "none", Absent, FALSE)

CacheIdle ==
    /\ objects = [f \in FileIds |-> Absent]
    /\ dbMetadata = {}
    /\ mcpDocuments = {}
    /\ df_cache = [p \in Processors |-> NoEntries]
    /\ file_metadata = [p \in Processors |-> {}]
    /\ now = 0
    /\ cacheRet = CacheResult("none", "none", "none", "none", Absent, FALSE)

NoRagInput ==
    [user |-> "none", folder_ids |-> <<>>, messages |-> <<>>, query_embedding |-> <<>>,
     limit |-> 0, min_relevance_score |-> 0, fault |-> "none"]

NoRagResult == RagResult("none", "none", "", <<>>, 0, <<>>, FALSE, FALSE)

RagIdle ==
    /\ tabularFolders = {}
    /\ ragIn = NoRagInput
    /\ ragRet = NoRagResult

\* The permission tables, the index contents and the requests that query and
\* chat are exercised on.
RagPermissionTables ==
    LET entry(f, r, w) ==
            [user |-> "alice", folder |-> f, can_read |-> r, can_write |-> w,
             can_delete |-> FALSE, is_admin |-> FALSE, granted_by |-> "bob"]
    IN  { {},
          { entry("A", TRUE, FALSE) },
          { entry("B", FALSE, TRUE) },
          { entry("A", TRUE, FALSE), entry("B", FALSE, FALSE) } }

RagEmbeddingTables ==
    LET row(d, v) == [document_id |-> d, chunk_index |-> 0, embedding |-> v]
    IN  { {},
          { row("d1", <<5, 0>>), row("d2", <<5, 0>>) },
          { row("d1", <<0, 5>>), row("d2", <<5, 0>>) } }

RagStart ==
    /\ folders = [f \in FolderIds |->
                     [parent |-> IF f = "A" THEN NoParent ELSE IF f = "B" THEN "A" ELSE "B",
                      owner |-> "bob"]]
    /\ superusers = {}
    /\ permissions \in RagPermissionTables
    /\ aclRet = AclResult("none", "none", "none", "none", Returned(FALSE), NoList)
    /\ documents = [d \in Docs |-> IF d = "d1" THEN "A" ELSE "B"]
    /\ embeddings \in RagEmbeddingTables
    /\ ingestPc = [d \in Docs |-> "idle"]
    /\ indexed = { e.document_id : e \in embeddings }
    /\ indexRet = IndexResult("none", "none", <<>>, {}, "none", <<>>)
    /\ tabularFolders \in {{}, {"A", "B"}}
    /\ \/ ragIn \in [user : Users, folder_ids : RequestedFolders,
                      messages : RagConversations,
                      query_embedding : QueryVectors, limit : Limits,
                      min_relevance_score : MinSimilarities, fault : Faults]
       \/ ragIn \in [user : Users, folder_ids : RequestedFolders,
                      messages : DataConversations,
                      query_embedding : {<<5, 0>>}, limit : {2},
                      min_relevance_score : {70}, fault : StructuredFaults]
    /\ ragRet = NoRagResult

NoRouteInput == [question |-> <<>>, files |-> <<>>, classification |-> "DOCUMENT"]

NoRouteResult == RouteResult("none", FALSE, <<>>, NoDataset)

RouteIdle ==
    /\ routeIn = NoRouteInput
    /\ routeRet = NoRouteResult

RouteStart ==
    /\ routeIn \in [question : Questions, files : DatasetLists,
                     classification : Classifications]
    /\ routeRet = NoRouteResult

NoSyncResult ==
    [op |-> "none", connection |-> "none", item |-> [drive_id |-> "none", item_id |-> "none"],
     status |-> "none", message |-> "none", document_id |-> NoDocument,
     calls |-> Calls(0, 0, 0, 0, 0, 0)]

SyncStart ==
    /\ providerRefs = {}
    /\ syncDocuments = 0
    /\ syncRet = NoSyncResult

UploadStart ==
    /\ dbDocuments = {}
    /\ dbEmbeddings = {}
    /\ uploadRet = UploadResult("none", "none", NoDocumentRow, FALSE)

OauthStart ==
    /\ oauth_states = NoEntries
    /\ issuedStates = {}
    /\ providerConnections = {}
    /\ oauthRet = OauthResult("none", "none", "none", "none", "none", NoConnection)

InitACL == AclStart /\ IndexIdle /\ RefIdle /\ CacheIdle /\ RagIdle /\ RouteIdle /\ SyncStart /\ UploadStart /\ OauthStart

NextACL ==
    \/ \E u \in Grantees, f \in FolderIds, ptype \in PermissionTypes :
          CheckFolderPermission(u, f, ptype)
    \/ \E u \in Grantees : GetUserAccessibleFolders(u)
    \/ \E g \in Users, u \in Grantees, f \in FolderIds, flags \in FlagChoices :
          GrantPermission(g, u, f, flags)
    \/ \E r \in Users, u \in Grantees, f \in FolderIds : RevokePermission(r, u, f)

SpecACL == InitACL /\ [][NextACL]_vars

InitIndex == AclIdle /\ IndexStart /\ RefIdle /\ CacheIdle /\ RagIdle /\ RouteIdle /\ SyncStart /\ UploadStart /\ OauthStart

NextIndex ==
    \/ \E q \in QueryVectors, scope \in SUBSET DocFolders,
          limit \in Limits, min_similarity \in MinSimilarities :
          SearchSimilarChunks(q, scope, limit, min_similarity)
    \/ \E d \in Docs : IngestBegin(d)
    \/ \E d \in Docs, vecs \in ChunkLists : IngestCommit(d, vecs)
    \/ \E d \in Docs : IngestFail(d)
    \/ \E d \in Docs : DeleteDocumentEmbeddings(d)

SpecIndex == InitIndex /\ [][NextIndex]_vars

InitReform == AclIdle /\ IndexIdle /\ RefStart /\ CacheIdle /\ RagIdle /\ RouteIdle /\ SyncStart /\ UploadStart /\ OauthStart

NextReform ==
    \/ ReformulateQuery
    \/ ReformulateQueryEnhanced
    \/ ChatReformulate

SpecReform == InitReform /\ [][NextReform]_vars

InitCache == AclIdle /\ IndexIdle /\ RefIdle /\ CacheStart /\ RagIdle /\ RouteIdle /\ SyncStart /\ UploadStart /\ OauthStart

NextCache ==
    \/ \E p \in Processors, f \in FileIds : UploadFile(p, f)
    \/ \E p \in Processors, f \in FileIds, removed \in BOOLEAN :
          UploadFileFails(p, f, removed)
    \/ \E p \in Processors, f \in FileIds : ReadFile(p, f)
    \/ \E p \in Processors : NewProcessor(p)
    \/ \E d \in TickSteps : Tick(d)

SpecCache == InitCache /\ [][NextCache]_vars

InitRag == RagStart /\ RefIdle /\ CacheIdle /\ RouteIdle /\ SyncStart /\ UploadStart /\ OauthStart

NextRag ==
    \/ Query
    \/ Chat
    \/ ChatEnhancedStructuredBranch

SpecRag == InitRag /\ [][NextRag]_vars

InitRoute == AclIdle /\ IndexIdle /\ RefIdle /\ CacheIdle /\ RagIdle /\ RouteStart /\ SyncStart /\ UploadStart /\ OauthStart

NextRoute ==
    \/ IsCsvExcelQuery
    \/ IsCsvExcelQueryEnhanced
    \/ SelectBestFileForQuestion

SpecRoute == InitRoute /\ [][NextRoute]_vars

\* The folders and permission entries that the imports are exercised on:
\* bob owns every folder, and alice holds no entry, a write entry or a read
\* entry on folder A.
ImportAclStart ==
    LET entry(r, w) ==
            [user |-> "alice", folder |-> "A", can_read |-> r, can_write |-> w,
             can_delete |-> FALSE, is_admin |-> FALSE, granted_by |-> "bob"]
    IN  /\ folders = [f \in {"A", "B"} |-> [parent |-> NoParent, owner |-> "bob"]]
        /\ superusers = {}
        /\ permissions \in { {}, { entry(FALSE, TRUE) }, { entry(TRUE, FALSE) } }
        /\ aclRet = AclResult("none", "none", "none", "none", Returned(FALSE), NoList)

InitSync == ImportAclStart /\ IndexIdle /\ RefIdle /\ CacheIdle /\ RagIdle /\ RouteIdle /\ SyncStart /\ UploadStart /\ OauthStart

NextSync ==
    \/ \E connection \in Connections, item \in SyncItems, outcome \in SyncOutcomes :
          SyncItem(connection, item, outcome)
    \/ \E u \in Users, connection \in Connections, f \in FolderIds, item \in SyncItems,
          outcome \in SyncOutcomes :
          ImportFromSharepoint(u, connection, f, item, outcome)

SpecSync == InitSync /\ [][NextSync]_vars

InitUpload == AclIdle /\ IndexIdle /\ RefIdle /\ CacheIdle /\ RagIdle /\ RouteIdle /\ SyncStart /\ UploadStart /\ OauthStart

NextUpload ==
    \/ \E u \in Users, f \in UploadFolders, file \in UploadedFiles,
          storage \in StorageOutcomes, first \in EmbeddingOutcomes,
          second \in EmbeddingOutcomes :
          UploadDocument(u, f, file, storage, first, second)
    \/ \E document \in dbDocuments : DeleteDocument(document)

SpecUpload == InitUpload /\ [][NextUpload]_vars

InitOauth == AclIdle /\ IndexIdle /\ RefIdle /\ CacheIdle /\ RagIdle /\ RouteIdle /\ SyncStart /\ UploadStart /\ OauthStart

NextOauth ==
    \/ \E u \in Users : StartOauthFlow(u)
    \/ \E state \in StateTokens, tenant \in Tenants, exchange \in ExchangeOutcomes :
          OauthCallback(state, tenant, exchange)

SpecOauth == InitOauth /\ [][NextOauth]_vars

(***************************************************************************)
(* Properties of the access-control graph, checked under SpecACL           *)
(***************************************************************************)
IsCheck == aclRet.op = "check"

\* The checked user is neither superuser nor the owner of the checked
\* (existing) folder.
PlainUserCheck ==
    /\ IsCheck
    /\ aclRet.user \notin superusers
    /\ FolderExists(aclRet.folder)
    /\ folders[aclRet.folder].owner # aclRet.user

C2_OwnerSuperuserBypass ==
    (/\ IsCheck
     /\ \/ aclRet.user \in superusers
        \/ FolderExists(aclRet.folder) /\ folders[aclRet.folder].owner = aclRet.user)
        => aclRet.exc = "none" /\ aclRet.value = TRUE

\* The owner of a folder, not a superuser, holding an entry on it with no
\* flag set, was checked for admin and got true.
C2_Witness ==
    /\ IsCheck
    /\ aclRet.user \notin superusers
    /\ FolderExists(aclRet.folder)
    /\ folders[aclRet.folder].owner = aclRet.user
    /\ HasEntry(aclRet.user, aclRet.folder)
    /\ ~EntryGrants(FirstEntry(aclRet.user, aclRet.folder), "read")
    /\ aclRet.ptype = "admin"
    /\ aclRet.value = TRUE

\* C3: without an entry (and neither superuser nor owner) the result is the
\* result of the check on the parent, and false for a folder without parent.
C3_InheritsWithoutEntry ==
    (PlainUserCheck /\ ~HasEntry(aclRet.user, aclRet.folder))
        => IF folders[aclRet.folder].parent # NoParent
           THEN LET r == check_folder_permission(aclRet.user,
                             folders[aclRet.folder].parent, aclRet.ptype)
                IN  aclRet.exc = r.exc /\ aclRet.value = r.value
           ELSE aclRet.exc = "none" /\ aclRet.value = FALSE

\* A child without entry was readable through the read entry on its parent.
C3_Witness ==
    /\ PlainUserCheck
    /\ aclRet.folder = "B" /\ aclRet.ptype = "read"
    /\ ~HasEntry(aclRet.user, "B")
    /\ folders["A"].owner # aclRet.user
    /\ HasEntry(aclRet.user, "A")
    /\ FirstEntry(aclRet.user, "A").can_read
    /\ aclRet.value = TRUE

OwnedBy(u) == { f \in DOMAIN folders : folders[f].owner = u }

ReferencedWithFlag(u) ==
    { f \in DOMAIN folders :
        \E p \in permissions :
            /\ p.user = u /\ p.folder = f
            /\ (p.can_read \/ p.can_write \/ p.can_delete \/ p.is_admin) }

\* C5: get_user_accessible_folders returns all folders for a superuser, and
\* otherwise exactly the owned folders and the folders of the user's entries
\* with a flag set, each folder once.
C5_AccessibleFolders ==
    aclRet.op = "accessible"
        => /\ SeqRange(aclRet.list) =
                 IF aclRet.user \in superusers THEN DOMAIN folders
                 ELSE OwnedBy(aclRet.user) \cup ReferencedWithFlag(aclRet.user)
           /\ Cardinality(SeqRange(aclRet.list)) = Len(aclRet.list)

\* The list was computed for a user who owns a folder and also holds an
\* entry with a flag on that same folder, and a write-only entry elsewhere.
C5_Witness ==
    /\ aclRet.op = "accessible"
    /\ aclRet.user \notin superusers
    /\ OwnedBy(aclRet.user) \cap ReferencedWithFlag(aclRet.user) # {}
    /\ \E p \in permissions :
          /\ p.user = aclRet.user /\ p.can_write /\ ~p.can_read
          /\ p.folder \notin OwnedBy(aclRet.user)
          /\ p.folder \in SeqRange(aclRet.list)

(***************************************************************************)
(* Properties of the retrieval index, checked under SpecIndex              *)
(***************************************************************************)
\* C4: every chunk a search returns belongs to a document whose folder is in
\* the folder scope passed in.
C4_SearchWithinScope ==
    indexRet.op = "search"
        => \A i \in 1..Len(indexRet.rows) :
              /\ indexRet.rows[i].folder_id \in indexRet.scope
              /\ documents[indexRet.rows[i].document_id] \in indexRet.scope

\* A search scoped to folder A returned a chunk while a document of folder B
\* held a chunk at least as similar to the query.
C4_Witness ==
    /\ indexRet.op = "search"
    /\ indexRet.scope = {"A"}
    /\ Len(indexRet.rows) > 0
    /\ \E e \in embeddings :
          /\ documents[e.document_id] = "B"
          /\ Similarity(indexRet.query, e.embedding)
                >= Similarity(indexRet.query, indexRet.rows[1].embedding)

\* C6 (as stated): re-ingestion is atomic; a document whose ingestion has
\* completed is never observed without chunks, neither during a later
\* re-ingestion nor after one that failed.
C6_ReingestionAtomic ==
    \A d \in indexed : ChunksOf(d) # {}

(***************************************************************************)
(* Properties of the query reformulation, checked under SpecReform         *)
(***************************************************************************)
\* The call was made with two or more turns, one of them a user turn, and
\* the completion service returned a text.
RewriteReturned ==
    /\ refRet.op = "reformulate"
    /\ Len(refRet.messages) >= 2
    /\ UserMessages(refRet.messages) # <<>>
    /\ refRet.completion.kind = "text"

\* C9 (as stated): with two or more turns, when the completion service
\* returns the empty string or a text equal to the latest user query
\* ignoring case, _reformulate_query returns the latest user query unchanged.
C9_EchoFallsBack ==
    (/\ RewriteReturned
     /\ \/ refRet.completion.content = <<>>
        \/ Lower(refRet.completion.content) = Lower(LatestQuery(refRet.messages)))
        => /\ refRet.exc = "none"
           /\ refRet.value = LatestQuery(refRet.messages)

\* C10 (as stated): _reformulate_query never raises, whatever the turns and
\* whatever the completion service does.
C10_NeverRaises ==
    refRet.op # "none" => refRet.exc = "none"

\* The turns that _reformulate_query was given by the call.
GivenMessages ==
    IF refRet.op = "chat_reformulate" THEN RecentMessages(refRet.messages)
    ELSE refRet.messages

\* The rewrite failed: the service raised, returned no content, or returned
\* a text that is empty or shorter than 5 characters once trimmed.
RewriteFailed ==
    \/ refRet.completion.kind # "text"
    \/ Len(Strip(refRet.completion.content)) < 5

\* C10 (amended): _reformulate_query raises BadRequestException exactly when
\* the turns it is given hold no user turn; given at least one user turn it
\* never raises, whatever the completion service does, and returns the
\* latest user text whenever the rewrite fails.
C10_RaisesOnlyWithoutUserTurn ==
    refRet.op # "none"
        => IF UserMessages(GivenMessages) = <<>>
           THEN refRet.exc = "BadRequest"
           ELSE /\ refRet.exc = "none"
                /\ (Len(GivenMessages) >= 2 /\ RewriteFailed)
                      => refRet.value = LatestQuery(GivenMessages)

\* The completion service raised during a call with several turns, and the
\* latest user text came back.
C10_Witness ==
    /\ refRet.op # "none"
    /\ Len(GivenMessages) >= 2
    /\ UserMessages(GivenMessages) # <<>>
    /\ refRet.completion.kind = "raise"
    /\ refRet.called
    /\ refRet.exc = "none"
    /\ refRet.value = LatestQuery(GivenMessages)

(***************************************************************************)
(* Properties of the DataFrame cache, checked under SpecCache              *)
(***************************************************************************)
\* C7 (as stated): a re-upload invalidates the cache entry of the dataset,
\* so that a read_file after it returns the contents stored by the latest
\* upload and never an earlier cached DataFrame.
C7_ReadSeesLatestUpload ==
    (/\ cacheRet.op = "read"
     /\ cacheRet.exc = "none"
     /\ objects[cacheRet.file] # Absent)
        => cacheRet.df = objects[cacheRet.file]

(***************************************************************************)
(* Properties of query and chat, checked under SpecRag                     *)
(***************************************************************************)
\* The request reached the search, the search succeeded and returned no
\* chunk above the threshold.
SearchFoundNothing ==
    /\ ragRet.op \in {"query", "chat"}
    /\ ragRet.searched
    /\ ragIn.fault \notin {"search", "embedding"}
    /\ ragRet.scope # <<>>
    /\ EligibleRows(ragIn.query_embedding, SeqRange(ragRet.scope),
                    ragIn.min_relevance_score) = {}

\* C8 (as stated): when the search returns no chunk above the threshold the
\* request ends normally with the literal answer "No relevant documents
\* found for your query.", no sources and total_chunks = 0.
C8_EmptyResultAnswer ==
    SearchFoundNothing
        => /\ ragRet.exc = "none"
           /\ ragRet.answer = NoDocumentsAnswer
           /\ ragRet.sources = <<>>
           /\ ragRet.total_chunks = 0

\* C8 (amended): when the search returns no chunk above the threshold the
\* request ends normally with no sources and total_chunks = 0; the answer of
\* query is the literal "No relevant documents found for your query.", the
\* answer of chat is that sentence followed by " Try uploading documents
\* first or rephrase your question.".
C8_EmptyResultAnswers ==
    SearchFoundNothing
        => /\ ragRet.exc = "none"
           /\ ragRet.answer = IF ragRet.op = "query" THEN NoDocumentsAnswer
                              ELSE NoDocumentsChatAnswer
           /\ ragRet.sources = <<>>
           /\ ragRet.total_chunks = 0

\* A query over a scope that holds chunks, none of them similar enough,
\* ended with the literal answer.
C8_Witness ==
    /\ SearchFoundNothing
    /\ ragRet.op = "query"
    /\ \E e \in embeddings : documents[e.document_id] \in SeqRange(ragRet.scope)
    /\ ragRet.answer = NoDocumentsAnswer
    /\ ragRet.total_chunks = 0

(***************************************************************************)
(* Properties of the query routing, checked under SpecRoute                *)
(***************************************************************************)
\* The terms of system or documentation intent that the claim names.
DocumentationIntentTerms == { <<"e", "x", "p", "l", "a", "i", "n">>, <<"w", "h", "a", "t", " ", "i", "s">>, <<"d", "e", "s", "c", "r", "i", "b", "e">>, <<"h", "o", "w", " ", "t", "o">> }

HasDocumentationIntent(question) ==
    \E term \in DocumentationIntentTerms : Contains(Lower(question), term)

\* C11 (as stated): a question that contains a term of system or
\* documentation intent is classified as unstructured by _is_csv_excel_query,
\* whatever datasets are available and whatever aggregation terms it contains.
C11_IntentOverridesDataCues ==
    (/\ routeRet.op \in {"is_csv_excel_query", "is_csv_excel_query_enhanced"}
     /\ HasDocumentationIntent(routeIn.question))
        => ~routeRet.structured

\* The greatest score among the datasets of the list.
MaxScore(question, files) ==
    CHOOSE m \in { FileScore(question, files[i]) : i \in 1..Len(files) } :
        \A i \in 1..Len(files) : FileScore(question, files[i]) <= m

\* The first dataset, in input order, among those with the greatest score.
FirstOfBest(question, files) ==
    files[CHOOSE i \in 1..Len(files) :
             /\ FileScore(question, files[i]) = MaxScore(question, files)
             /\ \A j \in 1..(i - 1) :
                   FileScore(question, files[j]) < MaxScore(question, files)]

SelectionMade ==
    /\ routeRet.op = "select_best_file"
    /\ routeIn.files # <<>>

\* C12 (as stated): for a non-empty list _select_best_file_for_question
\* returns the listed dataset with the greatest score, the first in input
\* order among those tied for it, and the first dataset of the list when the
\* greatest score is 0.
C12_SelectsFirstOfBest ==
    SelectionMade
        => /\ \E i \in 1..Len(routeIn.files) : routeRet.selected = routeIn.files[i]
           /\ routeRet.selected =
                 IF MaxScore(routeIn.question, routeIn.files) = 0 THEN routeIn.files[1]
                 ELSE FirstOfBest(routeIn.question, routeIn.files)

(***************************************************************************)
(* Properties of the structured path of chat, checked under SpecRag        *)
(***************************************************************************)
\* The request was sent down the data-analysis path and something failed
\* on it.
StructuredPathFailed ==
    /\ ragRet.op \in {"chat", "chat_enhanced"}
    /\ ragIn.fault \in StructuredFaults
    /\ ragRet.op = "chat" =>
          /\ ragIn.fault \in {"mcp_error", "mcp_empty", "mcp_partial"}
          /\ ~NoAccessibleFolders(get_accessible_folders(ragIn.user, ragIn.folder_ids))
          /\ has_data_keywords(LatestQuery(ragIn.messages))
          /\ csv_excel_files(get_accessible_folders(ragIn.user, ragIn.folder_ids)) # <<>>
    /\ ragRet.op = "chat_enhanced" => ragIn.fault \in {"select", "generate", "execute"}

FallbackAnswers ==
    {McpNoAnalysisAnswer, McpErrorAnswer, EnhancedMcpFailureAnswer, FallbackExplanation}

\* C13 (as stated): a failure on the structured path never leaves chat as an
\* exception; the caller gets a normal response with a templated fallback
\* explanation, no sources and total_chunks = 0.
C13_FailureYieldsFallback ==
    StructuredPathFailed
        => /\ ragRet.exc = "none"
           /\ ragRet.answer \in FallbackAnswers
           /\ ragRet.sources = <<>>
           /\ ragRet.total_chunks = 0

\* The datasets of the request whose analysis did not fail.
AnalysedDatasets ==
    IF ragRet.op = "chat" /\ ragIn.fault = "mcp_partial"
    THEN SelectSeq(csv_excel_files(get_accessible_folders(ragIn.user, ragIn.folder_ids)),
                   LAMBDA f : f.folder_id # "A")
    ELSE <<>>

\* C13 (amended): a failure on the structured path never leaves chat as an
\* exception.  When no dataset was analysed the caller gets a normal response
\* with a templated fallback explanation, no sources and total_chunks = 0;
\* when rag_service.py analysed some of several datasets and failed on the
\* others, the response carries the analyses of the former, one source for
\* each of them and their number as total_chunks.
C13_FailureNeverPropagates ==
    StructuredPathFailed
        => /\ ragRet.exc = "none"
           /\ ragRet.total_chunks = Len(ragRet.sources)
           /\ IF AnalysedDatasets = <<>>
              THEN /\ ragRet.answer \in FallbackAnswers
                   /\ ragRet.sources = <<>>
              ELSE /\ ragRet.answer = Generated
                   /\ ragRet.sources =
                         [i \in 1..Len(AnalysedDatasets) |-> McpSource(AnalysedDatasets[i])]

\* The analysis as a whole failed in chat of rag_service.py, and the caller
\* got the fallback text without sources.
C13_Witness ==
    /\ StructuredPathFailed
    /\ ragRet.op = "chat"
    /\ ragIn.fault = "mcp_error"
    /\ ragRet.exc = "none"
    /\ ragRet.answer = McpErrorAnswer
    /\ ragRet.sources = <<>>

(***************************************************************************)
(* Propagation of retrieval failures, checked under SpecRag                *)
(***************************************************************************)
\* The request got as far as the embedding of the query text: its inputs
\* are valid, its scope is not empty and it was not sent down the
\* data-analysis path; and the embedding service or the similarity query
\* then failed.
RetrievalFailed ==
    /\ ragRet.op \in {"query", "chat"}
    /\ ragIn.fault \in {"embedding", "search"}
    /\ ~NoAccessibleFolders(get_accessible_folders(ragIn.user, ragIn.folder_ids))
    /\ ragRet.op = "chat" =>
          /\ HasUserMessage(RecentMessages(ragIn.messages))
          /\ LatestQuery(ragIn.messages) # <<>>
          /\ ~(/\ has_data_keywords(LatestQuery(ragIn.messages))
               /\ csv_excel_files(get_accessible_folders(ragIn.user, ragIn.folder_ids)) # <<>>)

\* C14: a failure of the embedding service or of the similarity query during
\* query or chat reaches the caller as a failure of the request
\* (BadRequestException); no answer, no sources and no empty result are
\* returned in its place.
C14_RetrievalFailurePropagates ==
    RetrievalFailed
        => /\ ragRet.exc = "BadRequest"
           /\ ragRet.answer = ""
           /\ ragRet.sources = <<>>

\* The similarity query failed during a chat whose scope holds chunks, and
\* the request failed.
C14_Witness ==
    /\ RetrievalFailed
    /\ ragRet.op = "chat"
    /\ ragIn.fault = "search"
    /\ ragRet.searched
    /\ ragRet.exc = "BadRequest"
    /\ \E e \in embeddings : documents[e.document_id] \in SeqRange(ragRet.scope)

(***************************************************************************)
(* Properties of grant_permission and of missing folders, under SpecACL    *)
(***************************************************************************)
\* The entries of every (user, folder) pair number at most one.
AtMostOneEntryPerPair ==
    \A u \in Users, f \in FolderIds : Cardinality(EntriesFor(u, f)) <= 1

\* C15: after any sequence of grant_permission and revoke_permission calls
\* every (user, folder) pair has at most one entry, and a grant to a pair
\* that has an entry replaces that entry by one with the granted flags and
\* the granter, adding no second entry and touching no other pair.
C15_OneEntryPerPair ==
    /\ []AtMostOneEntryPerPair
    /\ [][(aclRet'.op = "grant" /\ aclRet'.exc = "none"
            /\ HasEntry(aclRet'.user, aclRet'.folder))
          => /\ Cardinality(permissions') = Cardinality(permissions)
             /\ permissions \ permissions' \subseteq {FirstEntry(aclRet'.user, aclRet'.folder)}
             /\ \A e \in permissions' \ permissions :
                   /\ e.user = aclRet'.user
                   /\ e.folder = aclRet'.folder
                   /\ e.granted_by = aclRet'.granter]_vars

\* A grant found an entry of the pair, succeeded, and the pair has exactly
\* one entry, granted by the caller of that grant.
C15_Witness ==
    /\ aclRet.op = "grant"
    /\ aclRet.exc = "none"
    /\ aclRet.existing
    /\ Cardinality(EntriesFor(aclRet.user, aclRet.folder)) = 1
    /\ FirstEntry(aclRet.user, aclRet.folder).granted_by = aclRet.granter
    /\ FirstEntry(aclRet.user, aclRet.folder).can_write

\* The granter is a superuser, the owner of the folder, or holds admin
\* capability on it.
MayGrant(granter, f) ==
    \/ granter \in superusers
    \/ /\ FolderExists(f)
       /\ \/ folders[f].owner = granter
          \/ check_folder_permission(granter, f, "admin").value

\* C16 (as stated): grant_permission succeeds only for a granter who is a
\* superuser, the owner of the folder or holds admin capability on it; for
\* any other granter it raises PermissionDeniedException and leaves every
\* entry as it was.
C16_OthersAreDenied ==
    [][aclRet'.op = "grant"
          => IF MayGrant(aclRet'.granter, aclRet'.folder)
             THEN aclRet'.exc # "PermissionDenied"
             ELSE /\ aclRet'.exc = "PermissionDenied"
                  /\ permissions' = permissions]_vars

\* C16 (amended): grant_permission succeeds only for a granter who is a
\* superuser, the owner of the folder or holds admin capability on it; for
\* any other granter it leaves every entry as it was and raises
\* PermissionDeniedException when the folder exists and NotFoundException
\* when it does not.
C16_OthersAreRejected ==
    [][aclRet'.op = "grant"
          => IF MayGrant(aclRet'.granter, aclRet'.folder)
             THEN aclRet'.exc \notin {"PermissionDenied", "NotFound"}
             ELSE /\ aclRet'.exc = IF FolderExists(aclRet'.folder)
                                   THEN "PermissionDenied" ELSE "NotFound"
                  /\ permissions' = permissions]_vars

\* A granter without any right on an existing folder called grant_permission
\* for a pair that has an entry, and was denied.
C16_Witness ==
    /\ aclRet.op = "grant"
    /\ aclRet.exc = "PermissionDenied"
    /\ ~MayGrant(aclRet.granter, aclRet.folder)
    /\ FolderExists(aclRet.folder)
    /\ HasEntry(aclRet.user, aclRet.folder)

\* C17: for a user who is not a superuser, check_folder_permission on a
\* folder id that does not exist raises NotFoundException and returns no
\* boolean.
C17_MissingFolderRaises ==
    (IsCheck /\ aclRet.user \notin superusers /\ ~FolderExists(aclRet.folder))
        => aclRet.exc = "NotFound"

\* A check by a plain user on the folder id C, which the store does not
\* hold, while the user has entries on other folders.
C17_Witness ==
    /\ IsCheck
    /\ aclRet.user \notin superusers
    /\ ~FolderExists(aclRet.folder)
    /\ aclRet.exc = "NotFound"
    /\ \E p \in permissions : p.user = aclRet.user

(***************************************************************************)
(* Properties of the provider sync, checked under SpecSync                 *)
(***************************************************************************)
\* C18 (as stated): _sync_single_item skips an item as "File already
\* synced", doing no other work, exactly when the same connection has
\* already synced that (drive_id, item_id); an item synced only through
\* another connection is synced again.
C18_SkipsOnlyForSameConnection ==
    [][syncRet'.op = "sync"
          => ((syncRet'.status = "skipped" /\ syncRet'.message = "File already synced")
                <=> \E r \in providerRefs :
                       /\ r.connection_id = syncRet'.connection
                       /\ r.drive_id = syncRet'.item.drive_id
                       /\ r.item_id = syncRet'.item.item_id)]_vars

\* C19 (as stated): an item reported with status "success" had
\* process_document_embeddings called exactly once for its new document, and
\* a skipped item caused no such call.
C19_SuccessTriggersEmbeddings ==
    /\ syncRet.status = "success" => syncRet.calls.process_document_embeddings = 1
    /\ syncRet.status = "skipped" => syncRet.calls.process_document_embeddings = 0

(***************************************************************************)
(* Sharing of the DataFrame cache within a process, under SpecCache        *)
(***************************************************************************)
\* Some processor of the process holds a DataFrame of the dataset that it
\* cached less than CACHE_TIMEOUT seconds ago.
CachedInProcess(f) ==
    \E p \in Processors :
        /\ f \in DOMAIN df_cache[p]
        /\ now - df_cache[p][f].timestamp < CACHE_TIMEOUT

\* C20 (as stated): within one process a request for a dataset that arrives
\* within the time-to-live window of an earlier read observes the cached
\* DataFrame and causes no further fetch from object storage (a step that
\* leaves the clock alone and ends in the result of a read is a read_file).
C20_OneFetchPerWindow ==
    [][(cacheRet'.op = "read" /\ now' = now /\ CachedInProcess(cacheRet'.file))
          => ~cacheRet'.fetched]_vars

\* C21: on one processor, a read_file less than CACHE_TIMEOUT after the read
\* that cached the entry returns the cached DataFrame without a fetch and
\* leaves the cache as it was; a read_file CACHE_TIMEOUT or more after it
\* evicts the entry, and when it succeeds it has fetched the stored contents
\* and cached them under the current time, so that no entry as old as the
\* time-to-live is ever returned.
C21_ExpiryAfterTimeout ==
    [][(/\ cacheRet'.op = "read"
        /\ now' = now
        /\ cacheRet'.file \in DOMAIN df_cache[cacheRet'.proc])
         => LET p == cacheRet'.proc
                f == cacheRet'.file
            IN  IF now - df_cache[p][f].timestamp < CACHE_TIMEOUT
                THEN /\ cacheRet' = CacheResult("read", p, f, "none", df_cache[p][f].df, FALSE)
                     /\ df_cache' = df_cache
                ELSE /\ cacheRet'.exc = "none" =>
                           /\ cacheRet'.fetched
                           /\ cacheRet'.df = objects[f]
                           /\ df_cache'[p][f] = [df |-> objects[f], timestamp |-> now]
                     /\ cacheRet'.exc # "none" => f \notin DOMAIN df_cache'[p]]_vars

\* C21 witness: a read served from the cache some time after the read that
\* cached the entry.
C21_Witness ==
    /\ cacheRet.op = "read"
    /\ cacheRet.exc = "none"
    /\ ~cacheRet.fetched
    /\ cacheRet.file \in DOMAIN df_cache[cacheRet.proc]
    /\ now - df_cache[cacheRet.proc][cacheRet.file].timestamp > 0
    /\ now - df_cache[cacheRet.proc][cacheRet.file].timestamp < CACHE_TIMEOUT

\* The aggregation and statistics terms that the claim names.
AggregationTerms ==
    { <<"s", "u", "m">>, <<"a", "v", "e", "r", "a", "g", "e">>, <<"c", "o", "u", "n", "t">>, <<"t", "o", "t", "a", "l">>, <<"t", "o", "p">>, <<"h", "i", "g", "h", "e", "s", "t">>, <<"l", "o", "w", "e", "s", "t">>, <<"m", "i", "n">>, <<"m", "a", "x">>,
      <<"m", "e", "a", "n">>, <<"m", "e", "d", "i", "a", "n">>, <<"g", "r", "o", "u", "p">> }

HasAggregationTerm(question) ==
    \E term \in AggregationTerms : Contains(Lower(question), term)

\* C22 (as stated): when the classifier call fails, a question that contains
\* one of the aggregation terms is classified as structured if at least one
\* tabular dataset is available and as unstructured if none is.
C22_FallbackFollowsTerms ==
    (/\ routeRet.op = "is_csv_excel_query_enhanced"
     /\ routeIn.classification = "raise"
     /\ HasAggregationTerm(routeIn.question))
        => (routeRet.structured <=> routeIn.files # <<>>)

(***************************************************************************)
(* Properties of the context of a rewrite, checked under SpecReform        *)
(***************************************************************************)
\* The position of the latest user turn among the turns.
LatestUserPosition(messages) ==
    CHOOSE i \in 1..Len(messages) :
        /\ messages[i].role = "user"
        /\ \A j \in (i + 1)..Len(messages) : messages[j].role # "user"

\* C23 (as stated): with two or more turns, the context sent to the
\* completion service holds at most max_history turns, all of them turns that
\* precede the latest user turn of the conversation, so that the latest user
\* turn is never part of the context.
C23_ContextPrecedesLatest ==
    (/\ refRet.op # "none"
     /\ refRet.called
     /\ Len(GivenMessages) >= 2)
        => /\ Len(refRet.context) <= refRet.max_history
           /\ \E a \in 1..Len(GivenMessages), b \in 0..Len(GivenMessages) :
                 /\ b < LatestUserPosition(GivenMessages)
                 /\ refRet.context = SubSeq(GivenMessages, a, b)

InsertedBefore(d, e) == d = "d1" /\ e = "d2"

\* C24 (as stated): search returns chunks in descending similarity order,
\* and chunks of equal similarity in ascending chunk ordinal within a
\* document and otherwise in document insertion order.
C24_TiesInOrdinalOrder ==
    (indexRet.op = "search" /\ indexRet.exc = "none")
        => \A i, j \in 1..Len(indexRet.rows) : i < j =>
              LET a == indexRet.rows[i]
                  b == indexRet.rows[j]
                  sa == Similarity(indexRet.query, a.embedding)
                  sb == Similarity(indexRet.query, b.embedding)
              IN  /\ sa >= sb
                  /\ sa = sb =>
                        IF a.document_id = b.document_id
                        THEN a.chunk_index < b.chunk_index
                        ELSE InsertedBefore(a.document_id, b.document_id)

(***************************************************************************)
(* The retrieval scope of query and chat, checked under SpecRag            *)
(***************************************************************************)
\* C26 (as stated): every folder of the scope that query and chat pass to
\* the search is a folder on which check_folder_permission(user, folder,
\* "read") is true, so that write or delete capability alone never makes the
\* chunks of a folder retrievable.
C26_ScopeIsReadable ==
    (ragRet.op \in {"query", "chat"} /\ ragRet.searched)
        => \A f \in SeqRange(ragRet.scope) :
              /\ check_folder_permission(ragIn.user, f, "read").exc = "none"
              /\ check_folder_permission(ragIn.user, f, "read").value

\* The folders a request may search: the accessible folders of the user,
\* narrowed to the requested ones when folders were requested.
AuthorizedScope ==
    LET accessible == SeqRange(get_user_accessible_folders(ragIn.user))
    IN  IF ragIn.folder_ids # <<>>
        THEN accessible \cap SeqRange(ragIn.folder_ids)
        ELSE accessible

ImportCameToPermissionCheck ==
    /\ syncRet.op = "import"
    /\ ConnectionOwner[syncRet.connection] = syncRet.user
    /\ FolderExists(syncRet.folder)

\* C28 (as stated): an import processes the requested items if and only if
\* the caller has write permission on the target folder: a caller without it
\* is rejected with PermissionDeniedException, and a caller with it is never
\* rejected by the permission check.
C28_ImportIffWritePermission ==
    ImportCameToPermissionCheck
        => (syncRet.exc = "PermissionDenied"
               <=> ~check_folder_permission(syncRet.user, syncRet.folder, "write").value)

(***************************************************************************)
(* Properties of the document upload, checked under SpecUpload             *)
(***************************************************************************)
\* C29 (as stated): when the embedding generation fails during the upload of
\* an unstructured document, the upload still succeeds and the document it
\* reports is persisted: its row exists in the committed database state.
C29_ReportedDocumentIsPersisted ==
    (/\ uploadRet.op = "upload"
     /\ uploadRet.embedding_failed)
        => /\ uploadRet.exc = "none"
           /\ uploadRet.document \in dbDocuments

(***************************************************************************)
(* Properties of the OAuth state tokens, checked under SpecOauth           *)
(***************************************************************************)
\* The step is a callback that was accepted.
CallbackAccepted == oauthRet'.op = "callback" /\ oauthRet'.exc = "none"

\* The step is a callback whose state is not awaited.
CallbackWithUnknownState ==
    oauthRet'.op = "callback" /\ oauthRet'.state \notin DOMAIN oauth_states

\* C30: a callback is accepted only for a state that start_oauth_flow issued
\* and that no callback has consumed: the states awaited are issued states,
\* a state once issued is never issued again, an accepted callback consumes
\* its state and yields a connection of the user who started the flow, and a
\* callback with an unknown or used state fails with "Invalid or expired
\* state parameter" and changes nothing.
C30_StateAcceptedAtMostOnce ==
    /\ [](DOMAIN oauth_states \subseteq issuedStates)
    /\ [][/\ \A state \in DOMAIN oauth_states' \ DOMAIN oauth_states :
                state \notin issuedStates
          /\ CallbackAccepted =>
                /\ oauthRet'.state \in DOMAIN oauth_states
                /\ oauthRet'.state \notin DOMAIN oauth_states'
                /\ oauthRet'.connection.user_id = oauth_states[oauthRet'.state]
                /\ oauthRet'.connection \in providerConnections'
          /\ CallbackWithUnknownState =>
                /\ oauthRet'.exc = "BadRequest"
                /\ oauthRet'.message = InvalidState
                /\ UNCHANGED <<oauth_states, providerConnections>>]_vars

\* C30 witness: after an accepted callback, a state that was issued and
\* consumed is presented again and refused.
C30_Witness ==
    /\ oauthRet.op = "callback"
    /\ oauthRet.message = InvalidState
    /\ oauthRet.state \in issuedStates
    /\ \E c \in providerConnections : TRUE

====
